---- MODULE Spec2Model ----
(***************************************************************************)
(* Checkmk plugin templates (assets/templates): the pipeline               *)
(*   table parsing -> discovery -> stateful rate computation ->            *)
(*   threshold evaluation -> results                                       *)
(* of snmp_check.py, snmp_check_multitable.py and agent_check_advanced.py. *)
(*                                                                         *)
(* Numbers: Python floats are modelled as exact rationals num/den          *)
(* (den > 0); no rounding is modelled.  Texts are sequences of pieces, a   *)
(* piece "{x}" standing for the rendering of the number x.                 *)
(***************************************************************************)
EXTENDS Integers, Sequences, FiniteSets, TLC

VARIABLES
    plugin,         \* the check plugin whose service owns the value store
    value_store,    \* get_value_store(): metric key -> <<timestamp, raw value>>
    before,         \* the value store as the running operation found it
    last_sample,    \* history: metric key -> the sample of the latest rate call for it
    samples_before, \* history: last_sample as the running operation found it
    run,            \* the running operation: its inputs, its rate calls, what it yielded
    previous,       \* history: the discovery run that ended before the running one
    local_check,    \* local_check.py: the LocalCheck object and the line it printed last
    host_run,       \* host -> the check run of that host: its position and rate calls
    serial,         \* history: the value store had the runs of the hosts not overlapped
    pipeline        \* what one host's pipeline keeps: the section parsed, the services

vars == <<plugin, value_store, before, last_sample, samples_before, run, previous,
          local_check, host_run, serial, pipeline>>

\* ------------------------------------------------------------------ bounds

\* time.time() takes the values 100, 110, ..., 100 + 10 * MaxTick
MaxTick == 2
\* a counter takes the values 200, 1000, ..., 200 + 800 * MaxCount
MaxCount == 2

Times == {100 + 10 * i : i \in 0..MaxTick}
Counters == {200 + 800 * i : i \in 0..MaxCount}

\* ------------------------------------------------------------ value store

EmptyStore == [k \in {} |-> <<0, 0>>]

\* mutant: the key does not name the item
metric_key_without_item(metric, item) == metric

\* f"{metric}.{item}"
MetricKey(metric, item) == metric \o "." \o item

\* the modulus of a counter whose modulus is not configured
NoModulus == 0
\* the modulus of the wrapping counter of the rate scenario
ScenarioModulus == 2000
Moduli == {NoModulus, ScenarioModulus}
\* sanity ceilings (units per second) an engine may be configured with
Ceilings == {50, 100}

\* What one rate call did: its arguments, the entry it found (had, prev), whether
\* it reported "collecting" (GetRateError raised) or else the rate num/den, and
\* the store as it leaves it.
Outcome(store, key, now, raw_value, modulus, ceiling, raised, num, den, stored) ==
    [key |-> key, now |-> now, raw |-> raw_value, modulus |-> modulus,
     ceiling |-> ceiling, had |-> key \in DOMAIN store,
     prev |-> IF key \in DOMAIN store THEN store[key] ELSE <<0, 0>>,
     raised |-> raised, num |-> num, den |-> den, store |-> stored]

\* "collecting", the sample stored
Collecting(store, key, now, raw_value, modulus, ceiling) ==
    Outcome(store, key, now, raw_value, modulus, ceiling, TRUE, 0, 1,
            (key :> <<now, raw_value>>) @@ store)

\* the rate delta / elapsed, the sample stored
Numeric(store, key, now, raw_value, modulus, ceiling, delta, elapsed) ==
    Outcome(store, key, now, raw_value, modulus, ceiling, FALSE, delta, elapsed,
            (key :> <<now, raw_value>>) @@ store)

\* mutant: a first observation yields the rate 0
rate_first_sample_zero(store, key, now, raw_value, modulus, ceiling) ==
    IF key \notin DOMAIN store
    THEN Numeric(store, key, now, raw_value, modulus, ceiling, 0, 1)
    ELSE LET prev_time == store[key][1]
             prev_value == store[key][2]
             wrapped == (modulus - prev_value) + raw_value
         IN  IF now <= prev_time \/ (raw_value < prev_value /\
                    ~(modulus # 0 /\ wrapped >= 0 /\ wrapped < ceiling * (now - prev_time)))
             THEN Collecting(store, key, now, raw_value, modulus, ceiling)
             ELSE Numeric(store, key, now, raw_value, modulus, ceiling,
                          IF raw_value < prev_value THEN wrapped
                          ELSE raw_value - prev_value, now - prev_time)

\* mutant: the rate is taken from the raw value, not from the difference
rate_no_difference(store, key, now, raw_value, modulus, ceiling) ==
    IF key \notin DOMAIN store
    THEN Collecting(store, key, now, raw_value, modulus, ceiling)
    ELSE LET prev_time == store[key][1]
             prev_value == store[key][2]
             wrapped == (modulus - prev_value) + raw_value
         IN  IF now <= prev_time \/ (raw_value < prev_value /\
                    ~(modulus # 0 /\ wrapped >= 0 /\ wrapped < ceiling * (now - prev_time)))
             THEN Collecting(store, key, now, raw_value, modulus, ceiling)
             ELSE Numeric(store, key, now, raw_value, modulus, ceiling,
                          IF raw_value < prev_value THEN wrapped
                          ELSE raw_value, now - prev_time)

\* mutant: a call on a non-advancing clock leaves the stored sample as it is
rate_keep_on_stale_clock(store, key, now, raw_value, modulus, ceiling) ==
    IF key \notin DOMAIN store
    THEN Collecting(store, key, now, raw_value, modulus, ceiling)
    ELSE LET prev_time == store[key][1]
             prev_value == store[key][2]
             wrapped == (modulus - prev_value) + raw_value
         IN  IF now <= prev_time
             THEN Outcome(store, key, now, raw_value, modulus, ceiling, TRUE, 0, 1, store)
             ELSE IF raw_value < prev_value /\
                    ~(modulus # 0 /\ wrapped >= 0 /\ wrapped < ceiling * (now - prev_time))
             THEN Collecting(store, key, now, raw_value, modulus, ceiling)
             ELSE Numeric(store, key, now, raw_value, modulus, ceiling,
                          IF raw_value < prev_value THEN wrapped
                          ELSE raw_value - prev_value, now - prev_time)

\* mutant: the wrapped delta forgets the part counted after the wrap
rate_wrap_without_raw(store, key, now, raw_value, modulus, ceiling) ==
    IF key \notin DOMAIN store
    THEN Collecting(store, key, now, raw_value, modulus, ceiling)
    ELSE LET prev_time == store[key][1]
             prev_value == store[key][2]
             wrapped == modulus - prev_value
         IN  IF now <= prev_time \/ (raw_value < prev_value /\
                    ~(modulus # 0 /\ wrapped >= 0 /\ wrapped < ceiling * (now - prev_time)))
             THEN Collecting(store, key, now, raw_value, modulus, ceiling)
             ELSE Numeric(store, key, now, raw_value, modulus, ceiling,
                          IF raw_value < prev_value THEN wrapped
                          ELSE raw_value - prev_value, now - prev_time)

\* mutant: the clock is not checked before dividing
rate_no_clock_check(store, key, now, raw_value, modulus, ceiling) ==
    IF key \notin DOMAIN store
    THEN Collecting(store, key, now, raw_value, modulus, ceiling)
    ELSE LET prev_time == store[key][1]
             prev_value == store[key][2]
             wrapped == (modulus - prev_value) + raw_value
         IN  IF raw_value < prev_value /\
                    ~(modulus # 0 /\ wrapped >= 0 /\ wrapped < ceiling * (now - prev_time))
             THEN Collecting(store, key, now, raw_value, modulus, ceiling)
             ELSE Numeric(store, key, now, raw_value, modulus, ceiling,
                          IF raw_value < prev_value THEN wrapped
                          ELSE raw_value - prev_value, now - prev_time)

\* mutant: a decrease that cannot be recovered yields the negative rate
rate_negative_on_reset(store, key, now, raw_value, modulus, ceiling) ==
    IF key \notin DOMAIN store
    THEN Collecting(store, key, now, raw_value, modulus, ceiling)
    ELSE LET prev_time == store[key][1]
             prev_value == store[key][2]
             wrapped == (modulus - prev_value) + raw_value
         IN  IF now <= prev_time
             THEN Collecting(store, key, now, raw_value, modulus, ceiling)
             ELSE Numeric(store, key, now, raw_value, modulus, ceiling,
                          IF raw_value < prev_value /\ modulus # 0 /\ wrapped >= 0
                                /\ wrapped < ceiling * (now - prev_time)
                          THEN wrapped
                          ELSE raw_value - prev_value, now - prev_time)

\* rate(metric_key, now, raw_value) of the rate engine, with its configuration:
\* the counter's modulus (NoModulus: not known) and the sanity ceiling.
rate(store, key, now, raw_value, modulus, ceiling) ==
    IF key \notin DOMAIN store                                     \* step 2
    THEN Collecting(store, key, now, raw_value, modulus, ceiling)
    ELSE LET prev_time  == store[key][1]                           \* step 1
             prev_value == store[key][2]
             elapsed    == now - prev_time
             wrapped    == (modulus - prev_value) + raw_value
         IN  IF now <= prev_time                                   \* step 3
             THEN Collecting(store, key, now, raw_value, modulus, ceiling)
             ELSE IF raw_value < prev_value                        \* step 4
             THEN IF /\ modulus # NoModulus
                     /\ wrapped >= 0
                     /\ wrapped < ceiling * elapsed
                  THEN Numeric(store, key, now, raw_value, modulus, ceiling,
                               wrapped, elapsed)
                  ELSE Collecting(store, key, now, raw_value, modulus, ceiling)
             ELSE Numeric(store, key, now, raw_value, modulus, ceiling,   \* step 5
                          raw_value - prev_value, elapsed)

\* get_rate(value_store, key, now, value) as the templates call it: no modulus
get_rate(store, key, now, raw_value) ==
    rate(store, key, now, raw_value, NoModulus, 0)

\* a call as the run records it (without the store)
CallRec(r) == [f \in (DOMAIN r) \ {"store"} |-> r[f]]

\* ---------------------------------------------------------------- results

\* Result(state=..., summary=... | notice=...)
Result(state, field, text) ==
    [kind |-> "Result", state |-> state, field |-> field, text |-> text,
     name |-> "", num |-> 0, den |-> 1]

\* Metric(name, value) with value = num/den
Metric(name, num, den) ==
    [kind |-> "Metric", state |-> "", field |-> "", text |-> <<>>,
     name |-> name, num |-> num, den |-> den]

\* no operation is running
Idle == [op |-> "idle", item |-> "", now |-> 0, section |-> <<>>, params |-> <<>>,
         calls |-> <<>>, out |-> <<>>, raised |-> FALSE, discovery |-> FALSE]

\* the samples of a sequence of rate calls, the later call of a key winning
RECURSIVE Samples(_, _)
Samples(calls, acc) ==
    IF calls = <<>> THEN acc
    ELSE Samples(Tail(calls),
                 (Head(calls).key :> <<Head(calls).now, Head(calls).raw>>) @@ acc)

\* An operation runs to its end (runs do not overlap): it made the rate calls
\* `calls`, yielded `out` and leaves the value store `store`.
Finish(op, item, now, params, section, calls, out, store) ==
    /\ run.op = "idle"
    /\ run' = [op |-> op, item |-> item, now |-> now, section |-> section,
               params |-> params, calls |-> calls, out |-> out, raised |-> FALSE,
               discovery |-> FALSE]
    /\ before' = value_store
    /\ value_store' = store
    /\ last_sample' = Samples(calls, last_sample)
    /\ samples_before' = last_sample
    /\ UNCHANGED <<plugin, previous, local_check,
                   host_run, serial, pipeline>>

\* An operation ends with an uncaught exception of kind `exc`.
Raise(op, item, now, params, section, calls, exc, store) ==
    /\ run.op = "idle"
    /\ run' = [op |-> op, item |-> item, now |-> now, section |-> section,
               params |-> params, calls |-> calls, out |-> <<exc>>, raised |-> TRUE,
               discovery |-> FALSE]
    /\ before' = value_store
    /\ value_store' = store
    /\ last_sample' = Samples(calls, last_sample)
    /\ samples_before' = last_sample
    /\ UNCHANGED <<plugin, previous, local_check,
                   host_run, serial, pipeline>>

\* The caller takes the results of the finished run; the next run may start.
Consume ==
    /\ run.op # "idle"
    /\ run' = Idle
    /\ before' = value_store
    /\ samples_before' = last_sample
    /\ previous' = IF run.discovery THEN run ELSE previous
    /\ UNCHANGED <<plugin, value_store, last_sample, local_check,
                   host_run, serial, pipeline>>

\* ------------------------------------------------------------ rate engine

\* one call of the rate engine on its own
RateCall(key, now, raw_value, modulus, ceiling) ==
    LET r == rate(value_store, key, now, raw_value, modulus, ceiling)
    IN  Finish("rate", "", now, <<>>, <<>>, <<CallRec(r)>>, <<>>, r.store)

\* ------------------------------------------------------ threshold evaluator

\* a threshold specification as a check hands it to check_levels:
\*   ("fixed", (warn, crit)) | ("no_levels", None) | None | a bare (warn, crit)
Fixed(warn, crit) == [tag |-> "fixed", warn |-> warn, crit |-> crit]
NoLevels == [tag |-> "no_levels", warn |-> 0, crit |-> 0]
NoneLevels == [tag |-> "none", warn |-> 0, crit |-> 0]
Bare(warn, crit) == [tag |-> "bare", warn |-> warn, crit |-> crit]

\* evaluate(value, spec) in the upper direction, value = num/den
evaluate_upper(num, den, levels) ==
    IF levels.tag = "fixed"
    THEN IF num >= levels.crit * den THEN "CRIT"
         ELSE IF num >= levels.warn * den THEN "WARN"
         ELSE "OK"
    ELSE IF levels.tag \in {"no_levels", "none"} THEN "OK"
    ELSE "UNKNOWN"                      \* malformed: configuration error

\* evaluate(value, spec) in the lower direction
evaluate_lower(num, den, levels) ==
    IF levels.tag = "fixed"
    THEN IF num <= levels.crit * den THEN "CRIT"
         ELSE IF num <= levels.warn * den THEN "WARN"
         ELSE "OK"
    ELSE IF levels.tag \in {"no_levels", "none"} THEN "OK"
    ELSE "UNKNOWN"

\* the worse-than relation used to combine severities: UNKNOWN is worse than
\* OK only
Rank(state) ==
    CASE state = "OK" -> 0 [] state = "UNKNOWN" -> 1
      [] state = "WARN" -> 2 [] state = "CRIT" -> 3

Worst(s1, s2) == IF Rank(s1) >= Rank(s2) THEN s1 ELSE s2

\* the aggregated severity of the results among the yielded `out`: the worst
\* of them, OK when there is none (every result a check yields counts)
RECURSIVE Aggregate(_)
Aggregate(out) ==
    IF out = <<>> THEN "OK"
    ELSE IF Head(out).kind = "Result"
    THEN Worst(Head(out).state, Aggregate(Tail(out)))
    ELSE Aggregate(Tail(out))

\* check_levels(value, metric_name=..., levels_upper=..., levels_lower=...,
\* label=...): one result and the metric, which carries the levels it was
\* evaluated against
check_levels(num, den, metric_name, levels_upper, levels_lower, label) ==
    LET state == Worst(evaluate_upper(num, den, levels_upper),
                       evaluate_lower(num, den, levels_lower))
    IN  << Result(state, "summary", <<label, ": {value}">>),
           Metric(metric_name, num, den)
              @@ [levels_upper |-> levels_upper, levels_lower |-> levels_lower] >>

\* ------------------------------------------------- snmp_check.py: checks

\* None, the answer of a parser that kept no row (an empty dict is never returned)
None == <<>>
\* the section is None
IsNone(section) == DOMAIN section = {}

Items == {"eth0"}
\* an item no section holds
MissingItem == "eth5"
CheckItems == Items \cup {MissingItem}

\* ifAdminStatus / ifOperStatus values a section may hold (0: unparsable)
StatusCodes == {0, 1, 2, 4}

\* parsed sections of interface_status: item -> data
StatusSections ==
    { [i \in Items |-> [index |-> "1", admin_status |-> a, oper_status |-> o]] :
        a \in {1, 2}, o \in StatusCodes }

\* parsed sections of interface_traffic: item -> data
TrafficSections(counters) ==
    { [i \in Items |-> [index |-> "1", in_octets |-> a, out_octets |-> b]] :
        a \in counters, b \in counters }

\* oper_status_map.get(oper_status, (State.UNKNOWN, "invalid"))
oper_status_map(oper_status) ==
    CASE oper_status = 1 -> <<"OK", "up">>
      [] oper_status = 2 -> <<"CRIT", "down">>
      [] oper_status = 3 -> <<"WARN", "testing">>
      [] oper_status = 4 -> <<"UNKNOWN", "unknown">>
      [] oper_status = 5 -> <<"WARN", "dormant">>
      [] oper_status = 6 -> <<"CRIT", "notPresent">>
      [] oper_status = 7 -> <<"CRIT", "lowerLayerDown">>
      [] OTHER -> <<"UNKNOWN", "invalid">>

\* mutant: an interface that is administratively down alerts like any other
check_status_admin_ignored(item, section) ==
    IF IsNone(section)
    THEN Raise("check_interface_status", item, 0, <<>>, section, <<>>,
               "AttributeError", value_store)
    ELSE IF item \notin DOMAIN section
    THEN Finish("check_interface_status", item, 0, <<>>, section, <<>>,
                <<Result("UNKNOWN", "summary", <<"Interface not found">>)>>,
                value_store)
    ELSE LET data == section[item]
             mapped == oper_status_map(data.oper_status)
         IN  Finish("check_interface_status", item, 0, <<>>, section, <<>>,
                    <<Result(mapped[1], "summary",
                             <<"Operational status: ", mapped[2]>>)>>,
                    value_store)

check_interface_status(item, section) ==
    IF IsNone(section)
    THEN Raise("check_interface_status", item, 0, <<>>, section, <<>>,
               "AttributeError", value_store)
    ELSE IF item \notin DOMAIN section
    THEN Finish("check_interface_status", item, 0, <<>>, section, <<>>,
                <<Result("UNKNOWN", "summary", <<"Interface not found">>)>>,
                value_store)
    ELSE LET data == section[item]
             mapped == oper_status_map(data.oper_status)
             state == IF data.admin_status # 1 THEN "OK" ELSE mapped[1]
             status_text == IF data.admin_status # 1
                            THEN <<mapped[2], " (admin down)">>
                            ELSE <<mapped[2]>>
         IN  Finish("check_interface_status", item, 0, <<>>, section, <<>>,
                    <<Result(state, "summary",
                             <<"Operational status: ">> \o status_text)>>,
                    value_store)

\* mutant: a rate that is not available yet is reported as UNKNOWN
check_traffic_collecting_unknown(item, section, now) ==
    IF item \notin DOMAIN section
    THEN Finish("check_interface_traffic", item, now, <<>>, section, <<>>,
                <<Result("UNKNOWN", "summary", <<"Interface not found">>)>>,
                value_store)
    ELSE LET data == section[item]
             in_rate == get_rate(value_store, MetricKey("in_octets", item),
                                 now, data.in_octets)
             out_rate == get_rate(in_rate.store, MetricKey("out_octets", item),
                                  now, data.out_octets)
             collecting == <<Result("UNKNOWN", "summary", <<"Collecting data...">>)>>
         IN  IF in_rate.raised
             THEN Finish("check_interface_traffic", item, now, <<>>, section,
                         <<CallRec(in_rate)>>, collecting, in_rate.store)
             ELSE IF out_rate.raised
             THEN Finish("check_interface_traffic", item, now, <<>>, section,
                         <<CallRec(in_rate), CallRec(out_rate)>>, collecting,
                         out_rate.store)
             ELSE Finish("check_interface_traffic", item, now, <<>>, section,
                         <<CallRec(in_rate), CallRec(out_rate)>>,
                         << Result("OK", "summary", <<"In: {in_bps}, Out: {out_bps}">>),
                            Metric("if_in_bps", in_rate.num * 8, in_rate.den),
                            Metric("if_out_bps", out_rate.num * 8, out_rate.den) >>,
                         out_rate.store)

\* mutant: when the second rate is not available yet, the first is still emitted
check_traffic_metric_while_collecting(item, section, now) ==
    IF item \notin DOMAIN section
    THEN Finish("check_interface_traffic", item, now, <<>>, section, <<>>,
                <<Result("UNKNOWN", "summary", <<"Interface not found">>)>>,
                value_store)
    ELSE LET data == section[item]
             in_rate == get_rate(value_store, MetricKey("in_octets", item),
                                 now, data.in_octets)
             out_rate == get_rate(in_rate.store, MetricKey("out_octets", item),
                                  now, data.out_octets)
             collecting == <<Result("OK", "summary", <<"Collecting data...">>)>>
         IN  IF in_rate.raised
             THEN Finish("check_interface_traffic", item, now, <<>>, section,
                         <<CallRec(in_rate)>>, collecting, in_rate.store)
             ELSE IF out_rate.raised
             THEN Finish("check_interface_traffic", item, now, <<>>, section,
                         <<CallRec(in_rate), CallRec(out_rate)>>,
                         collecting
                         \o <<Metric("if_in_bps", in_rate.num * 8, in_rate.den)>>,
                         out_rate.store)
             ELSE Finish("check_interface_traffic", item, now, <<>>, section,
                         <<CallRec(in_rate), CallRec(out_rate)>>,
                         << Result("OK", "summary", <<"In: {in_bps}, Out: {out_bps}">>),
                            Metric("if_in_bps", in_rate.num * 8, in_rate.den),
                            Metric("if_out_bps", out_rate.num * 8, out_rate.den) >>,
                         out_rate.store)

check_interface_traffic(item, section, now) ==
    IF IsNone(section)
    THEN Raise("check_interface_traffic", item, now, <<>>, section, <<>>,
               "AttributeError", value_store)
    ELSE IF item \notin DOMAIN section
    THEN Finish("check_interface_traffic", item, now, <<>>, section, <<>>,
                <<Result("UNKNOWN", "summary", <<"Interface not found">>)>>,
                value_store)
    ELSE LET data == section[item]
             in_rate == get_rate(value_store, MetricKey("in_octets", item),
                                 now, data.in_octets)
             out_rate == get_rate(in_rate.store, MetricKey("out_octets", item),
                                  now, data.out_octets)
             collecting == <<Result("OK", "summary", <<"Collecting data...">>)>>
         IN  IF in_rate.raised          \* GetRateError: the second call is not made
             THEN Finish("check_interface_traffic", item, now, <<>>, section,
                         <<CallRec(in_rate)>>, collecting, in_rate.store)
             ELSE IF out_rate.raised
             THEN Finish("check_interface_traffic", item, now, <<>>, section,
                         <<CallRec(in_rate), CallRec(out_rate)>>, collecting,
                         out_rate.store)
             ELSE Finish("check_interface_traffic", item, now, <<>>, section,
                         <<CallRec(in_rate), CallRec(out_rate)>>,
                         << Result("OK", "summary", <<"In: {in_bps}, Out: {out_bps}">>),
                            Metric("if_in_bps", in_rate.num * 8, in_rate.den),
                            Metric("if_out_bps", out_rate.num * 8, out_rate.den) >>,
                         out_rate.store)

\* ---------------------------------------- agent_check_advanced.py: check

MycheckItems == {"item1"}
MycheckMissingItem == "item9"
MycheckValues == {5, 50, 85, 95}

MycheckSections ==
    { [i \in MycheckItems |-> [value |-> v, status |-> "OK"]] : v \in MycheckValues }

\* check_default_parameters, and a rule that switches the levels off
MycheckParams ==
    { [levels_upper |-> Fixed(80, 90), levels_lower |-> Fixed(10, 5)],
      [levels_upper |-> NoLevels, levels_lower |-> NoLevels] }

check_mycheck(item, params, section) ==
    IF IsNone(section)
    THEN Raise("check_mycheck", item, 0, params, section, <<>>,
               "AttributeError", value_store)
    ELSE IF item \notin DOMAIN section
    THEN Finish("check_mycheck", item, 0, params, section, <<>>,
                <<Result("UNKNOWN", "summary", <<"Item not found in data">>)>>,
                value_store)
    ELSE LET data == section[item]
         IN  Finish("check_mycheck", item, 0, params, section, <<>>,
                    check_levels(data.value, 1, "mycheck_value",
                                 params.levels_upper, params.levels_lower, "Value")
                    \o <<Result("OK", "notice", <<"Reported status: ", data.status>>)>>,
                    value_store)

\* params.get(key, default)
Get(params, key, default) == IF key \in DOMAIN params THEN params[key] ELSE default

\* parse_system_resources results
SystemResourcesSections ==
    [cpu_percent : {50, 85, 95}, memory_used : {0, 60, 90}, memory_total : {0, 100}]

\* check_default_parameters of check_plugin_system_resources, a rule that
\* sets both levels, and a rule that sets the CPU levels only
SystemResourcesParams ==
    { [cpu_levels |-> Bare(80, 90), memory_levels |-> Bare(70, 85)],
      [cpu_levels |-> Fixed(80, 90), memory_levels |-> Fixed(70, 85)],
      [cpu_levels |-> Fixed(80, 90), memory_levels |-> Bare(70, 85)] }

check_system_resources(params, section) ==
    IF IsNone(section)
    THEN Finish("check_system_resources", "", 0, params, section, <<>>,
                <<Result("UNKNOWN", "summary", <<"No data">>)>>, value_store)
    ELSE LET cpu == check_levels(section.cpu_percent, 1, "cpu_percent",
                                 Get(params, "cpu_levels", NoneLevels), NoneLevels,
                                 "CPU")
             memory ==
                 IF section.memory_total > 0
                 THEN check_levels(section.memory_used * 100, section.memory_total,
                                   "memory_percent",
                                   Get(params, "memory_levels", NoneLevels),
                                   NoneLevels, "Memory")
                      \o <<Metric("memory_used", section.memory_used, 1)>>
                 ELSE <<>>
         IN  Finish("check_system_resources", "", 0, params, section, <<>>,
                    cpu \o memory, value_store)

\* ------------------------------- snmp_check_multitable.py: check function

\* a / b >= c / d for positive b, d
GreaterEq(a, b, c, d) == a * d >= c * b

\* check_multi_table_interfaces for an item the section holds
multi_table_interface(item, params, section, now) ==
    LET interface == section[item]
        is_admin_up == interface.admin_status = 1
        \* status check
        mapped == oper_status_map(interface.oper_status)
        expected_status == Get(params, "expected_status", 1)
        status ==
            IF interface.oper_status # expected_status /\ is_admin_up
            THEN Result("CRIT", "summary", <<"Status: ", mapped[2], " (expected: up)">>)
            ELSE IF ~is_admin_up
            THEN Result("OK", "summary", <<"Status: ", mapped[2], " (admin down)">>)
            ELSE Result(mapped[1], "summary", <<"Status: ", mapped[2]>>)
        \* speed check
        discovered_speed == Get(params, "discovered_speed", 0)
        speed ==
            IF interface.speed > 0
            THEN IF discovered_speed # 0 /\ interface.speed # discovered_speed
                 THEN <<Result("WARN", "summary",
                               <<"Speed changed: {speed} (was {discovered_speed})">>)>>
                 ELSE <<Result("OK", "notice", <<"Speed: {speed}">>)>>
            ELSE <<>>
        \* traffic rates
        in_rate == get_rate(value_store, MetricKey("in_octets", item),
                            now, interface.in_octets)
        out_rate == get_rate(in_rate.store, MetricKey("out_octets", item),
                             now, interface.out_octets)
        traffic_calls == IF in_rate.raised THEN <<CallRec(in_rate)>>
                         ELSE <<CallRec(in_rate), CallRec(out_rate)>>
        traffic_store == IF in_rate.raised THEN in_rate.store ELSE out_rate.store
        in_bps_num == in_rate.num * 8
        out_bps_num == out_rate.num * 8
        \* in_util = (in_bps / speed) * 100
        in_util_num == in_bps_num * 100
        in_util_den == in_rate.den * interface.speed
        out_util_num == out_bps_num * 100
        out_util_den == out_rate.den * interface.speed
        in_is_max == GreaterEq(in_util_num, in_util_den, out_util_num, out_util_den)
        util_levels == Get(params, "utilization_levels", Bare(80, 90))
        traffic ==
            IF in_rate.raised \/ out_rate.raised
            THEN <<Result("OK", "notice", <<"Traffic: collecting data...">>)>>
            ELSE << Result("OK", "summary", <<"In: {in_bps}, Out: {out_bps}">>),
                    Metric("if_in_bps", in_bps_num, in_rate.den),
                    Metric("if_out_bps", out_bps_num, out_rate.den) >>
                 \o (IF interface.speed > 0
                     THEN check_levels(IF in_is_max THEN in_util_num ELSE out_util_num,
                                       IF in_is_max THEN in_util_den ELSE out_util_den,
                                       "if_util_percent", util_levels, NoneLevels,
                                       "Utilization")
                     ELSE <<>>)
        \* error rates
        in_err_rate == get_rate(traffic_store, MetricKey("in_errors", item),
                                now, interface.in_errors)
        out_err_rate == get_rate(in_err_rate.store, MetricKey("out_errors", item),
                                 now, interface.out_errors)
        error_calls == IF in_err_rate.raised THEN <<CallRec(in_err_rate)>>
                       ELSE <<CallRec(in_err_rate), CallRec(out_err_rate)>>
        error_store == IF in_err_rate.raised THEN in_err_rate.store
                       ELSE out_err_rate.store
        total_err_num == in_err_rate.num * out_err_rate.den
                            + out_err_rate.num * in_err_rate.den
        total_err_den == in_err_rate.den * out_err_rate.den
        error_levels == Get(params, "error_levels", Bare(1, 10))
        errors ==
            IF in_err_rate.raised \/ out_err_rate.raised
            THEN <<>>                                   \* pass: no error rate yet
            ELSE IF total_err_num > 0
            THEN check_levels(total_err_num, total_err_den, "if_errors_rate",
                              error_levels, NoneLevels, "Errors")
            ELSE <<>>
    IN  Finish("check_multi_table_interfaces", item, now, params, section,
               traffic_calls \o error_calls,
               <<status>> \o speed \o traffic \o errors,
               error_store)

\* mutant: an item the section does not hold yields nothing
check_multi_silent_when_missing(item, params, section, now) ==
    IF item \notin DOMAIN section
    THEN Finish("check_multi_table_interfaces", item, now, params, section, <<>>,
                <<>>, value_store)
    ELSE multi_table_interface(item, params, section, now)

check_multi_table_interfaces(item, params, section, now) ==
    IF IsNone(section)
    THEN Raise("check_multi_table_interfaces", item, now, params, section, <<>>,
               "AttributeError", value_store)
    ELSE IF item \notin DOMAIN section
    THEN Finish("check_multi_table_interfaces", item, now, params, section, <<>>,
                <<Result("UNKNOWN", "summary", <<"Interface not found">>)>>,
                value_store)
    ELSE multi_table_interface(item, params, section, now)

\* check_default_parameters of check_plugin_multi_table_interfaces
multi_default_parameters ==
    [expected_status |-> 1,
     utilization_levels |-> Bare(80, 90),
     error_levels |-> Bare(1, 10)]

\* ------------------------------------------------------------ specification

\* time.time() of a check run takes the values 0 .. MaxCheckTick
MaxCheckTick == 2
CheckTimes == 0..MaxCheckTick
\* the counter values of the checked sections: two values give an increase, a
\* decrease and no change between two runs
CheckCounters == {0, 1}

\* the interface speed of the checked sections
CheckSpeed == 1000

\* parsed sections of multi_table_interfaces: item -> InterfaceData
MultiSections(counters) ==
    { [i \in Items |->
          [index |-> "1", descr |-> i, name |-> "", alias |-> "", if_type |-> 6,
           speed |-> CheckSpeed, admin_status |-> 1, oper_status |-> 1,
           in_octets |-> a, out_octets |-> b, in_errors |-> c, out_errors |-> d]] :
        a \in counters, b \in counters, c \in counters, d \in counters }

\* no LocalCheck object yet, nothing printed
NoLocalCheck ==
    [op |-> "none", metrics |-> <<>>, added |-> <<>>, printed |-> <<>>, found |-> FALSE]

\* nothing parsed, nothing discovered yet
NoPipeline == [string_table |-> <<>>, section |-> <<>>, services |-> {}]

\* the monitored hosts whose check runs may overlap
Hosts == {"host1", "host2"}

\* the host runs no check; it has made no rate call yet
NoHostRun ==
    [pc |-> "idle", metric |-> 0, now |-> -1, interface |-> <<>>, loaded |-> EmptyStore,
     calls |-> <<>>, expected |-> <<>>, touched |-> {}, overlapped |-> FALSE]

\* the value store of one service is empty before the first run
InitStore ==
    /\ value_store = EmptyStore
    /\ before = EmptyStore
    /\ last_sample = EmptyStore
    /\ samples_before = EmptyStore
    /\ run = Idle
    /\ previous = Idle
    /\ local_check = NoLocalCheck
    /\ host_run = [host \in Hosts |-> NoHostRun]
    /\ serial = EmptyStore
    /\ pipeline = NoPipeline

Init ==
    /\ plugin = "interface_traffic"
    /\ InitStore

RateKeys == {MetricKey(m, i) : m \in {"in_octets", "out_octets"}, i \in Items}

\* the rate engine on its own, and the traffic check of snmp_check.py
Next ==
    \/ \E key \in RateKeys, now \in Times, raw_value \in Counters,
          modulus \in Moduli, ceiling \in Ceilings :
          RateCall(key, now, raw_value, modulus, ceiling)
    \/ \E item \in CheckItems, section \in TrafficSections(Counters), now \in Times :
          check_interface_traffic(item, section, now)
    \/ Consume

Spec == Init /\ [][Next]_vars

\* the check plugins of the templates that check an item
Plugins == {"interface_status", "interface_traffic", "multi_table_interfaces", "mycheck",
            "system_resources"}

InitChecks ==
    /\ plugin \in Plugins
    /\ InitStore

\* the runs of the service of one check plugin
NextChecks ==
    \/ /\ plugin = "interface_traffic"
       /\ \E item \in CheckItems, section \in TrafficSections(CheckCounters),
             now \in CheckTimes :
             check_interface_traffic(item, section, now)
    \/ /\ plugin = "multi_table_interfaces"
       /\ \E item \in CheckItems, section \in MultiSections(CheckCounters),
             now \in CheckTimes :
             check_multi_table_interfaces(item, multi_default_parameters, section, now)
    \/ /\ plugin = "interface_status"
       /\ \E item \in CheckItems, section \in StatusSections :
             check_interface_status(item, section)
    \/ /\ plugin = "mycheck"
       /\ \E item \in MycheckItems \cup {MycheckMissingItem},
             params \in MycheckParams, section \in MycheckSections :
             check_mycheck(item, params, section)
    \/ /\ plugin = "system_resources"
       /\ \E params \in SystemResourcesParams, section \in SystemResourcesSections :
             check_system_resources(params, section)
    \/ Consume

SpecChecks == InitChecks /\ [][NextChecks]_vars

\* ------------------------------------------------------- claims: rate engine

\* the calls of the running operation
Calls == run.calls
CallIds == DOMAIN run.calls

\* the earlier calls of the same run for the key of call i
Earlier(i) == {j \in 1..(i - 1) : Calls[j].key = Calls[i].key}
Later(i) == {j \in (i + 1)..Len(Calls) : Calls[j].key = Calls[i].key}

\* call i is the first rate call ever made for its key
FirstCall(i) == Earlier(i) = {} /\ Calls[i].key \notin DOMAIN samples_before

\* the sample of the call made for the key of call i just before call i
PrevSample(i) ==
    IF Earlier(i) # {}
    THEN LET j == CHOOSE j \in Earlier(i) : \A k \in Earlier(i) : k <= j
         IN  <<Calls[j].now, Calls[j].raw>>
    ELSE samples_before[Calls[i].key]

Metrics == {i \in DOMAIN run.out : run.out[i].kind = "Metric"}

IsCheck == run.op \in {"check_interface_traffic", "check_multi_table_interfaces"}

\* C1: the first rate call for a metric key that has no entry in the value store
\* reports "collecting" (GetRateError), never a rate (a check that made the call
\* emits none of that rate's metrics), and afterwards the store holds
\* (now, raw_value) under the key.
C1_FirstCallCollects ==
    \A i \in CallIds :
        ~Calls[i].had =>
            /\ Calls[i].raised
            /\ Later(i) = {} =>
                 /\ Calls[i].key \in DOMAIN value_store
                 /\ value_store[Calls[i].key] = <<Calls[i].now, Calls[i].raw>>
            /\ run.op = "check_interface_traffic" => Metrics = {}

\* a traffic check whose first call gave a rate and whose second call was the
\* first one for out_octets.eth0
C1_Witness ==
    /\ run.op = "check_interface_traffic"
    /\ Len(Calls) = 2
    /\ ~Calls[1].raised
    /\ ~Calls[2].had /\ Calls[2].raised
    /\ value_store["out_octets.eth0"] = <<Calls[2].now, Calls[2].raw>>

\* C2: of two consecutive rate calls for one key with samples (t1, v1), (t2, v2),
\* t2 > t1 and v2 >= v1, the second returns (v2 - v1) / (t2 - t1), which is not
\* negative; (100, 1000) followed by (110, 1800) returns 80.
C2_RateOfIncrease ==
    \A i \in CallIds :
        ~FirstCall(i) =>
            LET t1 == PrevSample(i)[1]
                v1 == PrevSample(i)[2]
                t2 == Calls[i].now
                v2 == Calls[i].raw
            IN  (t2 > t1 /\ v2 >= v1) =>
                    /\ ~Calls[i].raised
                    /\ Calls[i].num = v2 - v1
                    /\ Calls[i].den = t2 - t1
                    /\ Calls[i].num >= 0 /\ Calls[i].den > 0
                    /\ (t1 = 100 /\ v1 = 1000 /\ t2 = 110 /\ v2 = 1800)
                          => Calls[i].num = 80 * Calls[i].den

\* (100, 1000) followed by (110, 1800) on one key: 800 / 10
C2_Witness ==
    \E i \in CallIds :
        /\ ~FirstCall(i)
        /\ PrevSample(i) = <<100, 1000>>
        /\ Calls[i].now = 110 /\ Calls[i].raw = 1800
        /\ ~Calls[i].raised /\ Calls[i].num = 800 /\ Calls[i].den = 10

\* C3: the value store entry of every metric key is the (timestamp, raw value)
\* of the latest rate call made for that key, whichever branch the call took;
\* a key no call was made for has no entry.
C3_StoreIsLatestSample ==
    /\ DOMAIN value_store = DOMAIN last_sample
    /\ \A k \in DOMAIN value_store : value_store[k] = last_sample[k]
    /\ \A i \in CallIds :
          Later(i) = {} => value_store[Calls[i].key] = <<Calls[i].now, Calls[i].raw>>

\* a call on a clock that did not advance replaced a different stored sample
C3_Witness ==
    \E i \in CallIds :
        /\ Calls[i].had
        /\ Calls[i].now <= Calls[i].prev[1]
        /\ Calls[i].raised
        /\ Calls[i].prev # <<Calls[i].now, Calls[i].raw>>
        /\ value_store[Calls[i].key] = <<Calls[i].now, Calls[i].raw>>

\* C5 as stated: whenever raw_value < prev_value and the modulus is known, the
\* call returns ((modulus - prev_value) + raw_value) / (now - prev_time).
C5_Original ==
    \A i \in CallIds :
        (Calls[i].had /\ Calls[i].raw < Calls[i].prev[2]
                      /\ Calls[i].modulus # NoModulus) =>
            /\ ~Calls[i].raised
            /\ Calls[i].num = (Calls[i].modulus - Calls[i].prev[2]) + Calls[i].raw
            /\ Calls[i].den = Calls[i].now - Calls[i].prev[1]

\* C5, amended: when raw_value < prev_value, the modulus is known, the clock
\* advanced (now > prev_time) and the recovered rate is plausible (not negative,
\* below the sanity ceiling), the call returns
\* ((modulus - prev_value) + raw_value) / (now - prev_time); otherwise it
\* reports "collecting".  After (110, 1800), (120, 200) with modulus 2000 gives 40.
C5_WrapRecovered ==
    \A i \in CallIds :
        (Calls[i].had /\ Calls[i].raw < Calls[i].prev[2]
                      /\ Calls[i].modulus # NoModulus) =>
            LET elapsed == Calls[i].now - Calls[i].prev[1]
                delta == (Calls[i].modulus - Calls[i].prev[2]) + Calls[i].raw
            IN  IF elapsed > 0 /\ delta >= 0 /\ delta < Calls[i].ceiling * elapsed
                THEN /\ ~Calls[i].raised
                     /\ Calls[i].num = delta
                     /\ Calls[i].den = elapsed
                     /\ (Calls[i].prev = <<110, 1800>> /\ Calls[i].now = 120
                           /\ Calls[i].raw = 200 /\ Calls[i].modulus = 2000)
                          => Calls[i].num = 40 * Calls[i].den
                ELSE Calls[i].raised

\* after (110, 1800), the call (120, 200) with modulus 2000: 400 / 10
C5_Witness ==
    \E i \in CallIds :
        /\ Calls[i].had /\ Calls[i].prev = <<110, 1800>>
        /\ Calls[i].now = 120 /\ Calls[i].raw = 200 /\ Calls[i].modulus = 2000
        /\ ~Calls[i].raised /\ Calls[i].num = 400 /\ Calls[i].den = 10

\* C7: a rate call with now <= prev_time reports "collecting"; no rate is ever
\* the quotient by a zero or negative elapsed time; the call leaves the current
\* sample under its key and every other entry of the store as it was.
C7_StaleClockCollects ==
    /\ \A i \in CallIds : ~Calls[i].raised => Calls[i].den > 0
    /\ \A i \in CallIds :
          (Calls[i].had /\ Calls[i].now <= Calls[i].prev[1]) =>
              /\ Calls[i].raised
              /\ Later(i) = {} =>
                    value_store[Calls[i].key] = <<Calls[i].now, Calls[i].raw>>
              /\ \A k \in (DOMAIN before) \cup (DOMAIN value_store) :
                    (\A j \in CallIds : Calls[j].key # k) =>
                        /\ k \in DOMAIN before /\ k \in DOMAIN value_store
                        /\ value_store[k] = before[k]

\* a call at the stored time, or before it, with another key in the store
C7_Witness ==
    \E i \in CallIds :
        /\ Calls[i].had /\ Calls[i].now < Calls[i].prev[1]
        /\ Calls[i].raised
        /\ \E k \in DOMAIN before : k # Calls[i].key /\ value_store[k] = before[k]

\* ---------------------------------------------------- claims: check runs

Out == run.out
Results == {i \in DOMAIN run.out : run.out[i].kind = "Result"}

\* the item of the run is a key of its section
ItemPresent == run.item \in DOMAIN run.section

\* the counters a rate-computing check takes rates of
RateMetrics(op) ==
    IF op = "check_interface_traffic" THEN {"in_octets", "out_octets"}
    ELSE {"in_octets", "out_octets", "in_errors", "out_errors"}

\* C4 as stated: a run of a rate-computing check for an entity of the section
\* leaves, for every metric key of the entity, this run's sample in the value
\* store, also in the run that observes a key for the first time.
C4_EveryKeyUpdated ==
    (IsCheck /\ ItemPresent) =>
        \A m \in RateMetrics(run.op) :
            /\ MetricKey(m, run.item) \in DOMAIN value_store
            /\ value_store[MetricKey(m, run.item)] = <<run.now, run.section[run.item][m]>>

\* C6: no rate is negative.  A decrease that cannot be recovered as a wrap (no
\* modulus, or a recovered rate that is negative or not below the ceiling) is
\* answered by "collecting" and the new sample replaces the old one; the
\* metrics if_in_bps and if_out_bps of a check are never negative.
C6_NoNegativeRate ==
    /\ \A i \in CallIds : ~Calls[i].raised => (Calls[i].num >= 0 /\ Calls[i].den > 0)
    /\ \A i \in CallIds :
          LET elapsed == Calls[i].now - Calls[i].prev[1]
              delta == (Calls[i].modulus - Calls[i].prev[2]) + Calls[i].raw
          IN  (/\ Calls[i].had
               /\ Calls[i].raw < Calls[i].prev[2]
               /\ \/ Calls[i].modulus = NoModulus
                  \/ ~(delta >= 0 /\ delta < Calls[i].ceiling * elapsed)) =>
                  /\ Calls[i].raised
                  /\ Later(i) = {} =>
                        value_store[Calls[i].key] = <<Calls[i].now, Calls[i].raw>>
    /\ \A i \in Metrics :
          Out[i].name \in {"if_in_bps", "if_out_bps"} => (Out[i].num >= 0 /\ Out[i].den > 0)

\* a traffic check on an advancing clock whose in_octets counter went down
C6_Witness ==
    /\ run.op = "check_interface_traffic"
    /\ Len(Calls) = 1
    /\ Calls[1].had /\ Calls[1].now > Calls[1].prev[1]
    /\ Calls[1].raw < Calls[1].prev[2]
    /\ Calls[1].raised
    /\ value_store["in_octets.eth0"] = <<Calls[1].now, Calls[1].raw>>

\* the metrics and results of the two try blocks of a rate-computing check
TrafficKeys == {MetricKey(m, run.item) : m \in {"in_octets", "out_octets"}}
ErrorKeys == {MetricKey(m, run.item) : m \in {"in_errors", "out_errors"}}
TrafficCollecting == \E i \in CallIds : Calls[i].key \in TrafficKeys /\ Calls[i].raised
ErrorsCollecting == \E i \in CallIds : Calls[i].key \in ErrorKeys /\ Calls[i].raised

CollectingTexts == {<<"Collecting data...">>, <<"Traffic: collecting data...">>}
TrafficResults ==
    {i \in Results : Out[i].text \in
        CollectingTexts \cup {<<"In: {in_bps}, Out: {out_bps}">>,
                              <<"Utilization", ": {value}">>}}
ErrorResults == {i \in Results : Out[i].text = <<"Errors", ": {value}">>}
TrafficMetricNames == {"if_in_bps", "if_out_bps", "if_util_percent"}
ErrorMetricNames == {"if_errors_rate"}

NotFoundTexts == {<<"Interface not found">>, <<"Item not found in data">>}

ItemChecks == {"check_interface_status", "check_interface_traffic",
               "check_multi_table_interfaces", "check_mycheck"}

\* C9: an item-based check whose item is not a key of the section yields exactly
\* one result, UNKNOWN with a "not found" summary, and no metric.
C9_MissingItemUnknown ==
    (run.op \in ItemChecks /\ ~ItemPresent) =>
        /\ Len(Out) = 1
        /\ Out[1].kind = "Result"
        /\ Out[1].state = "UNKNOWN"
        /\ Out[1].field = "summary"
        /\ Out[1].text \in NotFoundTexts
        /\ ~run.raised

\* a multi-table check for eth5 after runs that filled the value store
C9_Witness ==
    /\ run.op = "check_multi_table_interfaces"
    /\ run.item = MissingItem
    /\ ~ItemPresent
    /\ DOMAIN value_store # {}
    /\ Len(Out) = 1 /\ Out[1].state = "UNKNOWN"

\* ------------------------------------------------------------- the parsers

\* Rows per table of a string_table
MaxRows == 1

\* Field texts of a row.  "sup2" stands for the one-character text U+00B2
\* (SUPERSCRIPT TWO), which str.isdigit accepts and int rejects.
Tokens == {"", "7", "abc", "-5", "sup2"}

\* str.isdigit
isdigit(s) == s \in {"0", "1", "2", "6", "7", "24", "1000", "1000000000", "sup2"}

\* the texts int() and float() accept; on any other text they raise ValueError
IntParses(s) == s \in {"0", "1", "2", "6", "7", "24", "1000", "1000000000", "-5"}

IntValue(s) ==
    CASE s = "0" -> 0
      [] s = "1" -> 1
      [] s = "2" -> 2
      [] s = "6" -> 6
      [] s = "7" -> 7
      [] s = "24" -> 24
      [] s = "1000" -> 1000
      [] s = "1000000000" -> 1000000000
      [] s = "-5" -> 0 - 5
      [] OTHER -> 0

\* `int(x) if x else 0` raises ValueError
IntIfSetRaises(x) == x # "" /\ ~IntParses(x)
\* `int(x) if x else 0`
IntIfSet(x) == IF x = "" THEN 0 ELSE IntValue(x)

\* `int(x) if x.isdigit() else 0` raises ValueError
IntIfDigitRaises(x) == isdigit(x) /\ ~IntParses(x)
\* `int(x) if x.isdigit() else 0`
IntIfDigit(x) == IF isdigit(x) THEN IntValue(x) ELSE 0

\* d[key] = value
Put(d, key, value) == [k \in (DOMAIN d) \cup {key} |-> IF k = key THEN value ELSE d[k]]

\* the tables of at most MaxRows rows drawn from `rows`
Tables(rows) == UNION {[1..n -> rows] : n \in 0..MaxRows}

\* the loop over ifXTable of parse_multi_table_interfaces
RECURSIVE ifx_by_index(_, _)
ifx_by_index(ifx_table, acc) ==
    IF ifx_table = <<>> THEN acc
    ELSE LET row == Head(ifx_table)
         IN  ifx_by_index(Tail(ifx_table),
                          IF Len(row) >= 3
                          THEN Put(acc, row[1], [name |-> row[2], alias |-> row[3]])
                          ELSE acc)

\* a row of the counter table makes int() raise
CounterRowRaises(row) ==
    Len(row) >= 5 /\ \E k \in 2..5 : IntIfSetRaises(row[k])

\* the loop over the counter table of parse_multi_table_interfaces
RECURSIVE counters_by_index(_, _)
counters_by_index(if_counters, acc) ==
    IF if_counters = <<>> THEN acc
    ELSE LET row == Head(if_counters)
         IN  counters_by_index(Tail(if_counters),
                               IF Len(row) >= 5
                               THEN Put(acc, row[1],
                                        [in_octets |-> IntIfSet(row[2]),
                                         out_octets |-> IntIfSet(row[3]),
                                         in_errors |-> IntIfSet(row[4]),
                                         out_errors |-> IntIfSet(row[5])])
                               ELSE acc)

\* a row of ifTable is merged, and one of its int() calls raises
IfRowRaises(row) ==
    Len(row) >= 6 /\ row[2] # "" /\ \E k \in 3..6 : IntIfDigitRaises(row[k])

\* mutant: the entity is keyed by its index
display_name_is_index(interface) == interface.index

\* InterfaceData.display_name
display_name(interface) ==
    IF interface.name # "" THEN interface.name
    ELSE IF interface.alias # "" THEN interface.alias
    ELSE interface.descr

\* the merge loop over ifTable of parse_multi_table_interfaces
RECURSIVE merge_interfaces(_, _, _, _)
merge_interfaces(if_table, ifx, counters, acc) ==
    IF if_table = <<>> THEN acc
    ELSE LET row == Head(if_table)
             idx == row[1]
             name == IF idx \in DOMAIN ifx THEN ifx[idx].name ELSE ""
             alias == IF idx \in DOMAIN ifx THEN ifx[idx].alias ELSE ""
             counter(field) ==
                 IF idx \in DOMAIN counters THEN counters[idx][field] ELSE 0
             interface ==
                 [index |-> idx, descr |-> row[2], name |-> name, alias |-> alias,
                  if_type |-> IntIfDigit(row[3]), speed |-> IntIfDigit(row[4]),
                  admin_status |-> IntIfDigit(row[5]),
                  oper_status |-> IntIfDigit(row[6]),
                  in_octets |-> counter("in_octets"),
                  out_octets |-> counter("out_octets"),
                  in_errors |-> counter("in_errors"),
                  out_errors |-> counter("out_errors")]
         IN  merge_interfaces(Tail(if_table), ifx, counters,
                              IF Len(row) < 6 \/ row[2] = "" THEN acc
                              ELSE Put(acc, display_name(interface), interface))

\* a parser ends: with `parsed`, or with the exception it did not catch
Parsed(op, string_table, raises, parsed) ==
    IF raises
    THEN Raise(op, "", 0, string_table, None, <<>>, "ValueError", value_store)
    ELSE Finish(op, "", 0, string_table, parsed, <<>>, <<>>, value_store)

parse_multi_table_interfaces(string_table) ==
    IF Len(string_table) < 3
    THEN Parsed("parse_multi_table_interfaces", string_table, FALSE, None)
    ELSE LET if_table == string_table[1]
             ifx_table == string_table[2]
             if_counters == string_table[3]
             counters == counters_by_index(if_counters, <<>>)
         IN  Parsed("parse_multi_table_interfaces", string_table,
                    \/ \E i \in DOMAIN if_counters : CounterRowRaises(if_counters[i])
                    \/ \E i \in DOMAIN if_table : IfRowRaises(if_table[i]),
                    merge_interfaces(if_table, ifx_by_index(ifx_table, <<>>),
                                     counters, <<>>))

\* the loop of parse_interface_traffic; a row whose counter int() rejects is skipped
RECURSIVE traffic_rows(_, _)
traffic_rows(string_table, acc) ==
    IF string_table = <<>> THEN acc
    ELSE LET row == Head(string_table)
         IN  traffic_rows(Tail(string_table),
                          IF \/ Len(row) < 4
                             \/ row[2] = ""
                             \/ IntIfSetRaises(row[3])
                             \/ IntIfSetRaises(row[4])
                          THEN acc
                          ELSE Put(acc, row[2],
                                   [index |-> row[1],
                                    in_octets |-> IntIfSet(row[3]),
                                    out_octets |-> IntIfSet(row[4])]))

parse_interface_traffic(string_table) ==
    Parsed("parse_interface_traffic", string_table, FALSE,
           traffic_rows(string_table, <<>>))

\* a row of parse_interface_status is kept, and one of its int() calls raises
StatusRowRaises(row) ==
    Len(row) >= 4 /\ row[2] # "" /\ \E k \in 3..4 : IntIfDigitRaises(row[k])

\* the loop of parse_interface_status
RECURSIVE status_rows(_, _)
status_rows(string_table, acc) ==
    IF string_table = <<>> THEN acc
    ELSE LET row == Head(string_table)
         IN  status_rows(Tail(string_table),
                         IF Len(row) < 4 \/ row[2] = "" THEN acc
                         ELSE Put(acc, row[2],
                                  [index |-> row[1],
                                   admin_status |-> IntIfDigit(row[3]),
                                   oper_status |-> IntIfDigit(row[4])]))

parse_interface_status(string_table) ==
    Parsed("parse_interface_status", string_table,
           \E i \in DOMAIN string_table : StatusRowRaises(string_table[i]),
           status_rows(string_table, <<>>))

\* the loop of parse_mycheck; a line whose value float() rejects is skipped
RECURSIVE mycheck_lines(_, _)
mycheck_lines(string_table, acc) ==
    IF string_table = <<>> THEN acc
    ELSE LET line == Head(string_table)
         IN  mycheck_lines(Tail(string_table),
                           IF Len(line) < 3 \/ ~IntParses(line[2]) THEN acc
                           ELSE Put(acc, line[1],
                                    [value |-> IntValue(line[2]), status |-> line[3]]))

parse_mycheck(string_table) ==
    Parsed("parse_mycheck", string_table, FALSE, mycheck_lines(string_table, <<>>))

\* rows of the three tables of the multi-table section
IfRows ==
    {<<"1", descr, "6", speed, "1", oper_status>> :
        descr \in {"", "eth0"}, speed \in {"1000", "sup2"}, oper_status \in {"1", "abc"}}
    \cup {<<"1", "eth0">>}
IfxRows == {<<"1", "", "">>, <<"1", "ge-0/0/0", "uplink">>, <<"2", "lo0", "">>, <<"1">>}
CounterRows ==
    {<<idx, in_octets, out_octets, "0", "0">> :
        idx \in {"1", "2"}, in_octets \in Tokens, out_octets \in {"", "7"}}
    \cup {<<"1", "7">>}

\* a second row of ifTable, for index 2
SecondIfRows ==
    {<<"2", descr, "6", "1000", "1", "1">> : descr \in {"", "eth0", "eth1"}}
\* ifXTable when both interfaces carry the same alias and no name
SharedAlias == << <<"1", "", "uplink">>, <<"2", "", "uplink">> >>

\* string_table of parse_multi_table_interfaces: the three tables, or fewer
MultiStringTables ==
    {<<>>, << <<>>, <<>> >>}
    \cup {<<if_table, ifx_table, if_counters>> :
            if_table \in {<<>>} \cup {<<r>> : r \in IfRows},
            ifx_table \in {<<>>} \cup {<<r>> : r \in IfxRows},
            if_counters \in Tables(CounterRows)}
    \cup {<< <<r1, r2>>, ifx_table, <<>> >> :
            r1 \in IfRows, r2 \in SecondIfRows, ifx_table \in {<<>>, SharedAlias}}

TrafficRows ==
    {<<"1", descr, in_octets, out_octets>> :
        descr \in {"", "eth0"}, in_octets \in Tokens, out_octets \in {"", "7"}}
    \cup {<<"1", "eth0", "7">>}

StatusRows ==
    {<<"1", descr, admin_status, oper_status>> :
        descr \in {"", "eth0"}, admin_status \in Tokens, oper_status \in {"1", "2"}}
    \cup {<<"1", "eth0", "1">>}

MycheckLines ==
    {<<item_name, value, "ok">> : item_name \in {"", "item1"}, value \in Tokens}
    \cup {<<"item1", "7">>}

InitParse ==
    /\ plugin = "parsers"
    /\ InitStore

\* the parse functions on the string tables the agent or the device may deliver
NextParse ==
    \/ \E string_table \in MultiStringTables :
          parse_multi_table_interfaces(string_table)
    \/ \E string_table \in Tables(TrafficRows) :
          parse_interface_traffic(string_table)
    \/ \E string_table \in Tables(StatusRows) :
          parse_interface_status(string_table)
    \/ \E string_table \in Tables(MycheckLines) :
          parse_mycheck(string_table)
    \/ Consume

SpecParse == InitParse /\ [][NextParse]_vars

\* ------------------------------------------- discovery, and "no data"

\* Service(item=..., parameters=...)
Service(item, parameters) == [item |-> item, parameters |-> parameters, single |-> FALSE]
\* Service(), the one service of a plugin without items
SingleService == [item |-> "", parameters |-> <<>>, single |-> TRUE]

\* A discovery function runs to its end and yielded `services` (a set: the
\* services carry distinct items, their order is the section's).
Discovered(op, section, services) ==
    /\ run.op = "idle"
    /\ run' = [op |-> op, item |-> "", now |-> 0, section |-> section,
               params |-> <<>>, calls |-> <<>>, out |-> services, raised |-> FALSE,
               discovery |-> TRUE]
    /\ before' = value_store
    /\ samples_before' = last_sample
    /\ UNCHANGED <<plugin, value_store, last_sample, previous, local_check,
                   host_run, serial, pipeline>>

\* A discovery function ends with an uncaught exception of kind `exc`.
DiscoveryRaises(op, section, exc) ==
    /\ run.op = "idle"
    /\ run' = [op |-> op, item |-> "", now |-> 0, section |-> section,
               params |-> <<>>, calls |-> <<>>, out |-> <<exc>>, raised |-> TRUE,
               discovery |-> TRUE]
    /\ before' = value_store
    /\ samples_before' = last_sample
    /\ UNCHANGED <<plugin, value_store, last_sample, previous, local_check,
                   host_run, serial, pipeline>>

discover_device_setup(section) ==
    Discovered("discover_device_setup", section,
               IF IsNone(section) THEN {} ELSE {SingleService})

check_device_setup(section) ==
    IF IsNone(section)
    THEN Finish("check_device_setup", "", 0, <<>>, section, <<>>,
                <<Result("UNKNOWN", "summary", <<"No SNMP data received">>)>>,
                value_store)
    ELSE IF \E field \in {"contact", "name", "location"} : section[field] = ""
    THEN Finish("check_device_setup", "", 0, <<>>, section, <<>>,
                <<Result("WARN", "summary", <<"Missing: {missing}">>)>>, value_store)
    ELSE Finish("check_device_setup", "", 0, <<>>, section, <<>>,
                <<Result("OK", "summary", <<"Name: {name}, Location: {location}">>)>>,
                value_store)

discover_interface_status(section) ==
    IF IsNone(section)
    THEN DiscoveryRaises("discover_interface_status", section, "AttributeError")
    ELSE Discovered("discover_interface_status", section,
                    {Service(interface_name, <<>>) :
                        interface_name \in {n \in DOMAIN section :
                                               section[n].admin_status = 1}})

discover_interface_traffic(section) ==
    IF IsNone(section)
    THEN DiscoveryRaises("discover_interface_traffic", section, "TypeError")
    ELSE Discovered("discover_interface_traffic", section,
                    {Service(interface_name, <<>>) : interface_name \in DOMAIN section})

\* the ifType values discover_multi_table_interfaces takes for physical
PhysicalTypes == {6, 117, 62, 69, 135, 136}

\* mutant: every interface is discovered, whatever its ifType
discover_multi_unfiltered(section) ==
    IF IsNone(section)
    THEN DiscoveryRaises("discover_multi_table_interfaces", section, "AttributeError")
    ELSE Discovered("discover_multi_table_interfaces", section,
                    {Service(name,
                             [discovered_speed |-> section[name].speed,
                              discovered_oper_status |-> section[name].oper_status]) :
                        name \in DOMAIN section})

discover_multi_table_interfaces(section) ==
    IF IsNone(section)
    THEN DiscoveryRaises("discover_multi_table_interfaces", section, "AttributeError")
    ELSE Discovered("discover_multi_table_interfaces", section,
                    {Service(name,
                             [discovered_speed |-> section[name].speed,
                              discovered_oper_status |-> section[name].oper_status]) :
                        name \in {n \in DOMAIN section :
                                     section[n].if_type \in PhysicalTypes}})

discover_mycheck(section) ==
    IF IsNone(section)
    THEN DiscoveryRaises("discover_mycheck", section, "TypeError")
    ELSE Discovered("discover_mycheck", section,
                    {Service(item_name, <<>>) : item_name \in DOMAIN section})

\* the sections discovery sees: one or two interfaces
DiscoveryItems == {"eth0", "lo0"}
ItemSets == (SUBSET DiscoveryItems) \ {{}}
\* ifType values of a section (24: softwareLoopback)
IfTypes == {6, 24, 117}

StatusDiscoverySections ==
    UNION { [names -> [index : {"1"}, admin_status : {1, 2}, oper_status : {1, 2}]] :
              names \in ItemSets }

MultiDiscoverySections ==
    UNION { [names -> [index : {"1"}, descr : {"eth0"}, name : {""}, alias : {""},
                       if_type : IfTypes, speed : {0, CheckSpeed},
                       admin_status : {1}, oper_status : {1, 2},
                       in_octets : {0}, out_octets : {0},
                       in_errors : {0}, out_errors : {0}]] :
              names \in ItemSets }

\* parse_device_setup results
DeviceSetupSections ==
    [contact : {"", "admin"}, name : {"", "sw1"}, location : {"", "lab"}]

InitSections ==
    /\ plugin = "sections"
    /\ InitStore

\* the discovery functions on the sections the parsers hand over, and the
\* discovery and check functions on None
NextSections ==
    \/ \E section \in DeviceSetupSections \cup {None} : discover_device_setup(section)
    \/ \E section \in DeviceSetupSections \cup {None} : check_device_setup(section)
    \/ \E section \in StatusDiscoverySections \cup {None} :
          discover_interface_status(section)
    \/ \E section \in TrafficSections(CheckCounters) \cup {None} :
          discover_interface_traffic(section)
    \/ \E section \in MultiDiscoverySections \cup {None} :
          discover_multi_table_interfaces(section)
    \/ \E section \in MycheckSections \cup {None} : discover_mycheck(section)
    \/ \E item \in Items : check_interface_status(item, None)
    \/ \E item \in Items, now \in CheckTimes : check_interface_traffic(item, None, now)
    \/ \E item \in Items, now \in CheckTimes :
          check_multi_table_interfaces(item, multi_default_parameters, None, now)
    \/ \E item \in MycheckItems, params \in MycheckParams :
          check_mycheck(item, params, None)
    \/ \E params \in SystemResourcesParams : check_system_resources(params, None)
    \/ Consume

SpecSections == InitSections /\ [][NextSections]_vars

\* ------------------------------ active_check_executable.py: thresholds

\* the exit codes of a monitoring plugin
OK == 0
WARNING == 1
CRITICAL == 2

\* Optional[float]: None, or a number
NoBound == [is_none |-> TRUE, value |-> 0]
Bound(x) == [is_none |-> FALSE, value |-> x]

\* mutant: the warning bound is tested before the critical bound
check_thresholds_warning_first(value, warning, critical, lower_is_worse) ==
    LET status ==
            IF lower_is_worse
            THEN (IF ~warning.is_none /\ value <= warning.value THEN WARNING
                  ELSE IF ~critical.is_none /\ value <= critical.value THEN CRITICAL
                  ELSE OK)
            ELSE (IF ~warning.is_none /\ value >= warning.value THEN WARNING
                  ELSE IF ~critical.is_none /\ value >= critical.value THEN CRITICAL
                  ELSE OK)
    IN  Finish("check_thresholds", "", 0,
               [value |-> value, warning |-> warning, critical |-> critical,
                lower_is_worse |-> lower_is_worse],
               <<>>, <<>>, <<status>>, value_store)

\* mutant: a value equal to a bound is not yet beyond it
check_thresholds_strict(value, warning, critical, lower_is_worse) ==
    LET status ==
            IF lower_is_worse
            THEN (IF ~critical.is_none /\ value < critical.value THEN CRITICAL
                  ELSE IF ~warning.is_none /\ value < warning.value THEN WARNING
                  ELSE OK)
            ELSE (IF ~critical.is_none /\ value > critical.value THEN CRITICAL
                  ELSE IF ~warning.is_none /\ value > warning.value THEN WARNING
                  ELSE OK)
    IN  Finish("check_thresholds", "", 0,
               [value |-> value, warning |-> warning, critical |-> critical,
                lower_is_worse |-> lower_is_worse],
               <<>>, <<>>, <<status>>, value_store)

check_thresholds(value, warning, critical, lower_is_worse) ==
    LET status ==
            IF lower_is_worse
            THEN (IF ~critical.is_none /\ value <= critical.value THEN CRITICAL
                  ELSE IF ~warning.is_none /\ value <= warning.value THEN WARNING
                  ELSE OK)
            ELSE (IF ~critical.is_none /\ value >= critical.value THEN CRITICAL
                  ELSE IF ~warning.is_none /\ value >= warning.value THEN WARNING
                  ELSE OK)
    IN  Finish("check_thresholds", "", 0,
               [value |-> value, warning |-> warning, critical |-> critical,
                lower_is_worse |-> lower_is_worse],
               <<>>, <<>>, <<status>>, value_store)

\* values and bounds: the scenario's bounds 80 and 90, and values below,
\* between, above and on them
ThresholdValues == {50, 80, 85, 90, 95}
OptionalBounds == {NoBound} \cup {Bound(x) : x \in ThresholdValues}

InitThresholds ==
    /\ plugin = "thresholds"
    /\ InitStore

NextThresholds ==
    \/ \E value \in ThresholdValues, warning \in OptionalBounds,
          critical \in OptionalBounds, lower_is_worse \in BOOLEAN :
          check_thresholds(value, warning, critical, lower_is_worse)
    \/ Consume

SpecThresholds == InitThresholds /\ [][NextThresholds]_vars

\* ------------------------------------------------------- local_check.py

\* Metrics a LocalCheck object may hold
MaxMetrics == 2

\* f"{status}" of STATUS_OK, STATUS_WARN, STATUS_CRIT, STATUS_UNKNOWN, STATUS_DYNAMIC
STATUS_OK == "0"
STATUS_WARN == "1"
STATUS_CRIT == "2"
STATUS_UNKNOWN == "3"
STATUS_DYNAMIC == "P"

\* Optional[str]: None, or a text
NoText == [is_none |-> TRUE, value |-> ""]
Text(x) == [is_none |-> FALSE, value |-> x]
\* `x or ''`, and `x if x is not None else ''`
OrEmpty(x) == IF x.is_none THEN "" ELSE x.value

\* the text of one metric, in pieces: name=value[;warn;crit[;min;max]]
MetricText(name, value, warn, crit, min_val, max_val) ==
    <<name, "=", value>>
    \o (IF ~warn.is_none \/ ~crit.is_none
        THEN <<";", OrEmpty(warn), ";", OrEmpty(crit)>>
             \o (IF ~min_val.is_none \/ ~max_val.is_none
                 THEN <<";", OrEmpty(min_val), ";", OrEmpty(max_val)>>
                 ELSE <<>>)
        ELSE <<>>)

\* "|".join(metrics)
RECURSIVE Join(_)
Join(metrics) ==
    IF metrics = <<>> THEN <<>>
    ELSE IF Len(metrics) = 1 THEN Head(metrics)
    ELSE Head(metrics) \o <<"|">> \o Join(Tail(metrics))

\* the line print() writes: <status> "<service_name>" <metrics> <text>
Line(status, metrics_str, text) ==
    <<[status |-> status, metrics_str |-> metrics_str, text |-> text]>>

\* LocalCheck(service_name): a new object, which has printed nothing
NewLocalCheck ==
    /\ local_check' = [NoLocalCheck EXCEPT !.op = "LocalCheck"]
    /\ UNCHANGED <<plugin, value_store, before, last_sample, samples_before, run,
                   previous,
                   host_run, serial, pipeline>>

\* mutant: a metric replaces the one added before it
add_metric_replacing(name, value, warn, crit, min_val, max_val) ==
    /\ local_check.op # "none"
    /\ Len(local_check.metrics) < MaxMetrics
    /\ local_check' =
          [local_check EXCEPT
              !.op = "add_metric",
              !.metrics = <<MetricText(name, value, warn, crit, min_val, max_val)>>,
              !.added = Append(@, name)]
    /\ UNCHANGED <<plugin, value_store, before, last_sample, samples_before, run,
                   previous,
                   host_run, serial, pipeline>>

\* LocalCheck.add_metric
add_metric(name, value, warn, crit, min_val, max_val) ==
    /\ local_check.op # "none"
    /\ Len(local_check.metrics) < MaxMetrics
    /\ local_check' =
          [local_check EXCEPT
              !.op = "add_metric",
              !.metrics = Append(@, MetricText(name, value, warn, crit,
                                               min_val, max_val)),
              !.added = Append(@, name)]
    /\ UNCHANGED <<plugin, value_store, before, last_sample, samples_before, run,
                   previous,
                   host_run, serial, pipeline>>

\* LocalCheck.output
output(status, text) ==
    /\ local_check.op # "none"
    /\ local_check' =
          [local_check EXCEPT
              !.op = "output",
              !.printed = Line(status,
                               IF local_check.metrics = <<>> THEN <<"-">>
                               ELSE Join(local_check.metrics),
                               text)]
    /\ UNCHANGED <<plugin, value_store, before, last_sample, samples_before, run,
                   previous,
                   host_run, serial, pipeline>>

\* f"{x}" of a float with a whole value
RenderFloat(x) == ToString(x) \o ".0"

\* check_backup with its default max_age_hours = 25 and min_size_mb = 10:
\* whether the directory exists, whether a file matches, the newest file's age
\* and size, and whether reading the files raised
check_backup(is_dir, has_files, age_hours, size_mb, raises) ==
    LET max_age_hours == 25
        min_size_mb == 10
        metrics ==
            << MetricText("age", RenderFloat(age_hours), Text(ToString(max_age_hours)),
                          Text(ToString(max_age_hours * 2)), NoText, NoText),
               MetricText("size", RenderFloat(size_mb),
                          Text(ToString(min_size_mb) \o ":"), NoText, NoText, NoText) >>
        bare(status, text) ==
            [op |-> "check_backup", metrics |-> <<>>, added |-> <<>>,
             printed |-> Line(status, <<"-">>, text), found |-> FALSE]
        checked(status, text) ==
            [op |-> "check_backup", metrics |-> metrics, added |-> <<"age", "size">>,
             printed |-> Line(status, Join(metrics), text), found |-> TRUE]
    IN  /\ local_check' =
              IF ~is_dir THEN bare(STATUS_CRIT, "Backup directory not found")
              ELSE IF raises THEN bare(STATUS_UNKNOWN, "Cannot check backup")
              ELSE IF ~has_files THEN bare(STATUS_CRIT, "No backup files found")
              ELSE IF age_hours > max_age_hours
              THEN checked(STATUS_CRIT, "Backup too old")
              ELSE IF size_mb < min_size_mb
              THEN checked(STATUS_WARN, "Backup small")
              ELSE checked(STATUS_OK, "Age, Size")
        /\ UNCHANGED <<plugin, value_store, before, last_sample, samples_before, run,
                       previous,
                   host_run, serial, pipeline>>

MetricNameSet == {"age", "size"}
OptionalWarn == {NoText, Text("10")}
OptionalCrit == {NoText, Text("20")}
OptionalMin == {NoText, Text("0")}
Statuses == {STATUS_OK, STATUS_CRIT, STATUS_DYNAMIC}
\* age in hours and size in MB of the newest backup file
BackupAges == {1, 30}
BackupSizes == {5, 50}

InitLocal ==
    /\ plugin = "local_check"
    /\ InitStore

NextLocal ==
    \/ NewLocalCheck
    \/ \E name \in MetricNameSet, warn \in OptionalWarn, crit \in OptionalCrit,
          min_val \in OptionalMin :
          add_metric(name, "1", warn, crit, min_val, NoText)
    \/ \E status \in Statuses : output(status, "text")
    \/ \E is_dir \in BOOLEAN, has_files \in BOOLEAN, age_hours \in BackupAges,
          size_mb \in BackupSizes, raises \in BOOLEAN :
          check_backup(is_dir, has_files, age_hours, size_mb, raises)

SpecLocal == InitLocal /\ [][NextLocal]_vars

\* ------------------------------------------------------- claims: parsers

ParseOps == {"parse_multi_table_interfaces", "parse_interface_traffic",
             "parse_interface_status", "parse_mycheck"}

\* C10 as stated: no row of a string table, however malformed, makes a parser
\* fail: every parser returns (a section or None) and raises nothing.
C10_NoParserFails ==
    run.op \in ParseOps => ~run.raised

\* the table a parser takes its entities from, its key column and the columns
\* a row needs
PrimaryTable ==
    IF run.op = "parse_multi_table_interfaces"
    THEN (IF Len(run.params) < 3 THEN <<>> ELSE run.params[1])
    ELSE run.params
KeyColumn == IF run.op = "parse_mycheck" THEN 1 ELSE 2
MinColumns ==
    CASE run.op = "parse_multi_table_interfaces" -> 6
      [] run.op = "parse_mycheck" -> 3
      [] OTHER -> 4

\* the rows that are long enough and have a key
GoodRows ==
    {i \in DOMAIN PrimaryTable :
        Len(PrimaryTable[i]) >= MinColumns /\ PrimaryTable[i][KeyColumn] # ""}

\* C11 as stated: the keys of a parser's result are exactly the key-column
\* values of the rows that have the minimum column count and a non-empty key
\* column.
C11_KeysAreRowKeys ==
    (run.op \in ParseOps /\ ~run.raised) =>
        DOMAIN run.section = {PrimaryTable[i][KeyColumn] : i \in GoodRows}

\* the indexes an auxiliary table has a usable row for
AuxIndexes(table, columns) ==
    {table[j][1] : j \in {j \in DOMAIN table : Len(table[j]) >= columns}}

\* C12 as stated: every row of the first table with six columns and a
\* description yields an entity, also when its index is missing from the second
\* or the third table; name and alias are then empty and the four counters
\* zero; an index that only an auxiliary table has yields no entity.
C12_PrimaryRowsYieldEntities ==
    (run.op = "parse_multi_table_interfaces" /\ Len(run.params) >= 3) =>
        /\ \A i \in GoodRows :
              \E k \in DOMAIN run.section :
                 LET e == run.section[k]
                     row == PrimaryTable[i]
                 IN  /\ e.index = row[1]
                     /\ e.descr = row[2]
                     /\ row[1] \notin AuxIndexes(run.params[2], 3) =>
                           (e.name = "" /\ e.alias = "")
                     /\ row[1] \notin AuxIndexes(run.params[3], 5) =>
                           /\ e.in_octets = 0 /\ e.out_octets = 0
                           /\ e.in_errors = 0 /\ e.out_errors = 0
        /\ \A k \in DOMAIN run.section :
              \E i \in GoodRows : run.section[k].index = PrimaryTable[i][1]

\* --------------------------------------- claims: discovery and "no data"

DiscoveryOps == {"discover_device_setup", "discover_interface_status",
                 "discover_interface_traffic", "discover_multi_table_interfaces",
                 "discover_mycheck"}
CheckOps == {"check_device_setup", "check_interface_status", "check_interface_traffic",
             "check_multi_table_interfaces", "check_mycheck", "check_system_resources"}

\* C13 as stated: on a section that is None every discovery function yields no
\* service and every check function yields an UNKNOWN result; none raises.
C13_NoDataIsHandled ==
    /\ (run.op \in DiscoveryOps /\ IsNone(run.section)) =>
          (~run.raised /\ run.out = {})
    /\ (run.op \in CheckOps /\ IsNone(run.section)) =>
          /\ ~run.raised
          /\ \E i \in DOMAIN run.out :
                run.out[i].kind = "Result" /\ run.out[i].state = "UNKNOWN"

\* ------------------------------------------------- claims: thresholds

\* the arguments and the answer of a check_thresholds call
Args == run.params
Status == run.out[1]

\* C14: in the upper direction check_thresholds answers CRITICAL if
\* value >= critical, else WARNING if value >= warning, else OK, for every
\* value and every pair of bounds in whatever order; with bounds (80, 90) the
\* value 85 gives WARNING, 95 CRITICAL, 50 OK, 90 CRITICAL and 80 WARNING.
C14_UpperThresholds ==
    (/\ run.op = "check_thresholds"
     /\ ~Args.lower_is_worse
     /\ ~Args.warning.is_none /\ ~Args.critical.is_none) =>
        /\ Status = IF Args.value >= Args.critical.value THEN CRITICAL
                    ELSE IF Args.value >= Args.warning.value THEN WARNING
                    ELSE OK
        /\ (Args.warning.value = 80 /\ Args.critical.value = 90) =>
              Status = CASE Args.value = 50 -> OK
                         [] Args.value \in {80, 85} -> WARNING
                         [] Args.value \in {90, 95} -> CRITICAL

\* bounds given in reverse order, and a value beyond both: CRITICAL
C14_Witness ==
    /\ run.op = "check_thresholds"
    /\ ~Args.lower_is_worse
    /\ Args.warning = Bound(90) /\ Args.critical = Bound(80)
    /\ Args.value = 90
    /\ Status = CRITICAL

\* C15: with lower_is_worse check_thresholds answers CRITICAL if
\* value <= critical, else WARNING if value <= warning, else OK; with warning
\* and critical both None it answers OK in both directions.
C15_LowerThresholds ==
    /\ (/\ run.op = "check_thresholds"
        /\ Args.lower_is_worse
        /\ ~Args.warning.is_none /\ ~Args.critical.is_none) =>
           Status = IF Args.value <= Args.critical.value THEN CRITICAL
                    ELSE IF Args.value <= Args.warning.value THEN WARNING
                    ELSE OK
    /\ (/\ run.op = "check_thresholds"
        /\ Args.warning.is_none /\ Args.critical.is_none) =>
           Status = OK

\* a value on the lower critical bound
C15_Witness ==
    /\ run.op = "check_thresholds"
    /\ Args.lower_is_worse
    /\ Args.warning = Bound(85) /\ Args.critical = Bound(80)
    /\ Args.value = 80
    /\ Status = CRITICAL

\* -------------------------------------- claims: levels and aggregation

\* the metrics check_levels evaluated, each with the levels it was handed
Evaluated == {i \in Metrics : "levels_upper" \in DOMAIN Out[i]}

\* C16 as stated: every levels_upper and levels_lower a check function hands
\* to check_levels is ("no_levels", None) or ("fixed", (warning, critical));
\* an argument that is left out or None is not counted.
C16_LevelsAreTagged ==
    run.op \in CheckOps =>
        \A i \in Evaluated :
            /\ Out[i].levels_upper.tag \in {"no_levels", "fixed", "none"}
            /\ Out[i].levels_lower.tag \in {"no_levels", "fixed", "none"}
\* the states of the results of the run
States == {Out[i].state : i \in Results}
\* the yielded sequence without the "collecting data" results
RECURSIVE WithoutCollecting(_)
WithoutCollecting(out) ==
    IF out = <<>> THEN <<>>
    ELSE IF Head(out).kind = "Result" /\ Head(out).text \in CollectingTexts
    THEN WithoutCollecting(Tail(out))
    ELSE <<Head(out)>> \o WithoutCollecting(Tail(out))

C17_WitnessCollecting ==
    /\ run.op = "check_interface_traffic"
    /\ \E i \in Results : Out[i].text \in CollectingTexts
    /\ Aggregate(Out) = "OK"

\* ------------------------------------------------ claims: local checks

\* the metrics of a printed line, split at "|"
RECURSIVE Split(_, _)
Split(pieces, current) ==
    IF pieces = <<>> THEN <<current>>
    ELSE IF Head(pieces) = "|" THEN <<current>> \o Split(Tail(pieces), <<>>)
    ELSE Split(Tail(pieces), Append(current, Head(pieces)))

\* the names of the metrics the printed line carries, in its order
PrintedNames ==
    LET metrics_str == local_check.printed[1].metrics_str
        parts == Split(metrics_str, <<>>)
    IN  IF metrics_str = <<"-">> THEN <<>>
        ELSE [i \in DOMAIN parts |-> parts[i][1]]

\* C18 as stated: the line LocalCheck.output prints carries every metric
\* added by add_metric, in insertion order, for every status; and the line of
\* check_backup carries the age and the size metric whether it reports OK,
\* WARN or CRIT.
C18_Original ==
    /\ local_check.op = "output" => PrintedNames = local_check.added
    /\ (/\ local_check.op = "check_backup"
        /\ local_check.printed[1].status \in {STATUS_OK, STATUS_WARN, STATUS_CRIT}) =>
           PrintedNames = <<"age", "size">>

\* C18, amended: the line LocalCheck.output prints carries every metric added
\* by add_metric, in insertion order, for every status; and whenever
\* check_backup found a backup file and could read it, its line carries the
\* age and the size metric, in this order, whether it reports OK, WARN or
\* CRIT.  When the directory or the files are missing (CRIT) or reading fails
\* (UNKNOWN), no metric was evaluated and the line carries none.
C18_MetricsRetained ==
    /\ local_check.op = "output" => PrintedNames = local_check.added
    /\ local_check.op = "check_backup" =>
          /\ local_check.found =>
                /\ PrintedNames = <<"age", "size">>
                /\ local_check.printed[1].status \in {STATUS_OK, STATUS_WARN, STATUS_CRIT}
          /\ ~local_check.found =>
                /\ PrintedNames = <<>>
                /\ local_check.printed[1].status \in {STATUS_CRIT, STATUS_UNKNOWN}

\* output printed two metrics under the status CRIT
C18_Witness ==
    /\ local_check.op = "output"
    /\ local_check.printed[1].status = STATUS_CRIT
    /\ local_check.added = <<"size", "age">>
    /\ PrintedNames = <<"size", "age">>

\* ------------------------------------------------- claims: discovery

\* C19: a discovery run on a section yields the services the run before it
\* yielded on the same section; every item discover_multi_table_interfaces
\* yields is a key of the section whose if_type is one of 6, 117, 62, 69, 135,
\* 136, and its parameters discovered_speed and discovered_oper_status are the
\* entity's speed and oper_status; every item discover_interface_status yields
\* is a key of the section whose admin_status is 1.
C19_DiscoveryIsAFunction ==
    (run.discovery /\ ~run.raised) =>
        /\ (/\ previous.op = run.op
            /\ ~previous.raised
            /\ DOMAIN previous.section = DOMAIN run.section
            /\ previous.section = run.section) => run.out = previous.out
        /\ run.op = "discover_multi_table_interfaces" =>
              \A service \in run.out :
                 /\ service.item \in DOMAIN run.section
                 /\ run.section[service.item].if_type \in {6, 117, 62, 69, 135, 136}
                 /\ service.parameters.discovered_speed
                       = run.section[service.item].speed
                 /\ service.parameters.discovered_oper_status
                       = run.section[service.item].oper_status
        /\ run.op = "discover_interface_status" =>
              \A service \in run.out :
                 /\ service.item \in DOMAIN run.section
                 /\ run.section[service.item].admin_status = 1

\* a second discovery of a section with a physical interface and a loopback
C19_Witness ==
    /\ run.op = "discover_multi_table_interfaces"
    /\ previous.op = run.op
    /\ DOMAIN run.section = {"eth0", "lo0"}
    /\ DOMAIN previous.section = DOMAIN run.section
    /\ previous.section = run.section
    /\ run.section["lo0"].if_type = 24
    /\ run.section["eth0"].if_type = 117
    /\ {service.item : service \in run.out} = {"eth0"}

\* ------------------------------------------- check runs of different hosts

\* the interface both hosts check: the keys the check builds are the same
HostItem == "eth0"

\* the counters check_multi_table_interfaces hands to get_rate, in call order
HostMetrics == <<"in_octets", "out_octets", "in_errors", "out_errors">>

\* mutant: the value store is not namespaced by host
scoped_key_without_host(host, key) == key

\* the key under which the value store of a run for `host` keeps `key`
scoped_key(host, key) == host \o "/" \o key

\* the keys of the value store a run for `host` may use
HostKeys(host) == {scoped_key(host, MetricKey(HostMetrics[m], HostItem)) : m \in 1..4}

\* the part of a store that belongs to `host`
View(store, host) == [k \in (DOMAIN store) \cap HostKeys(host) |-> store[k]]

\* The rate calls of one run of check_multi_table_interfaces that no other run
\* overlaps, and the store it leaves: a GetRateError ends its try block.
rate_calls(store, host, item, interface, now) ==
    LET in_rate == get_rate(store, scoped_key(host, MetricKey("in_octets", item)),
                            now, interface.in_octets)
        out_rate == get_rate(in_rate.store,
                             scoped_key(host, MetricKey("out_octets", item)),
                             now, interface.out_octets)
        traffic_calls == IF in_rate.raised THEN <<CallRec(in_rate)>>
                         ELSE <<CallRec(in_rate), CallRec(out_rate)>>
        traffic_store == IF in_rate.raised THEN in_rate.store ELSE out_rate.store
        in_err_rate == get_rate(traffic_store,
                                scoped_key(host, MetricKey("in_errors", item)),
                                now, interface.in_errors)
        out_err_rate == get_rate(in_err_rate.store,
                                 scoped_key(host, MetricKey("out_errors", item)),
                                 now, interface.out_errors)
        error_calls == IF in_err_rate.raised THEN <<CallRec(in_err_rate)>>
                       ELSE <<CallRec(in_err_rate), CallRec(out_err_rate)>>
        error_store == IF in_err_rate.raised THEN in_err_rate.store
                       ELSE out_err_rate.store
    IN  [calls |-> traffic_calls \o error_calls, store |-> error_store]

\* some other host is in the middle of a run
OtherRuns(host) == \E other \in Hosts \ {host} : host_run[other].pc # "idle"

\* the key of the rate call the run of `host` is at
CurrentKey(host) ==
    scoped_key(host, MetricKey(HostMetrics[host_run[host].metric], HostItem))

\* The scheduler starts a run of the check for `host`: value_store =
\* get_value_store(), now = time.time(), later than in the host's run before.
\* serial takes the run as a whole.
HostStart(host, section, now) ==
    /\ host_run[host].pc = "idle"
    /\ now > host_run[host].now
    /\ LET whole == rate_calls(serial, host, HostItem, section[HostItem], now)
       IN  /\ serial' = whole.store
           /\ host_run' = [host_run EXCEPT ![host] =
                  [pc |-> "read", metric |-> 1, now |-> now,
                   interface |-> section[HostItem], loaded |-> EmptyStore,
                   calls |-> <<>>, expected |-> whole.calls,
                   touched |-> host_run[host].touched, overlapped |-> FALSE]]
    /\ UNCHANGED <<plugin, value_store, before, last_sample, samples_before, run,
                   previous, local_check, pipeline>>

\* get_rate reads the entry of its key (the read of its read-modify-write)
HostRead(host) ==
    /\ host_run[host].pc = "read"
    /\ LET key == CurrentKey(host)
       IN  host_run' = [host_run EXCEPT ![host] =
               [@ EXCEPT !.pc = "write",
                         !.loaded = IF key \in DOMAIN value_store
                                    THEN key :> value_store[key]
                                    ELSE EmptyStore,
                         !.touched = @ \cup {key},
                         !.overlapped = @ \/ OtherRuns(host)]]
    /\ UNCHANGED <<plugin, value_store, before, last_sample, samples_before, run,
                   previous, local_check, serial, pipeline>>

\* get_rate stores the sample and returns the rate or raises GetRateError; the
\* run goes on to its next call, a GetRateError skipping the rest of the block
HostWrite(host) ==
    /\ host_run[host].pc = "write"
    /\ LET this == host_run[host]
           key == CurrentKey(host)
           r == get_rate(this.loaded, key, this.now,
                         this.interface[HostMetrics[this.metric]])
           next == IF this.metric = 1 THEN (IF r.raised THEN 3 ELSE 2)
                   ELSE IF this.metric = 2 THEN 3
                   ELSE IF this.metric = 3 THEN (IF r.raised THEN 0 ELSE 4)
                   ELSE 0
       IN  /\ value_store' = (key :> r.store[key]) @@ value_store
           /\ host_run' = [host_run EXCEPT ![host] =
                  [@ EXCEPT !.pc = IF next = 0 THEN "idle" ELSE "read",
                            !.metric = next,
                            !.loaded = EmptyStore,
                            !.calls = Append(@, CallRec(r)),
                            !.touched = @ \cup {key},
                            !.overlapped = @ \/ OtherRuns(host)]]
    /\ UNCHANGED <<plugin, before, last_sample, samples_before, run, previous,
                   local_check, serial, pipeline>>

\* the sections the hosts deliver: the four counters of the interface agree
HostSections ==
    {section \in MultiSections(CheckCounters) :
        LET interface == section[HostItem]
        IN  /\ interface.out_octets = interface.in_octets
            /\ interface.in_errors = interface.in_octets
            /\ interface.out_errors = interface.in_octets}

InitHosts ==
    /\ plugin = "multi_table_interfaces"
    /\ InitStore

\* runs of check_multi_table_interfaces for two hosts, their rate calls
\* interleaved in any order
NextHosts ==
    \/ \E host \in Hosts, section \in HostSections, now \in CheckTimes :
          HostStart(host, section, now)
    \/ \E host \in Hosts : HostRead(host)
    \/ \E host \in Hosts : HostWrite(host)

SpecHosts == InitHosts /\ [][NextHosts]_vars

\* ----------------------------------------------------- claims: concurrency

\* C20: check runs for different hosts, interleaved in any order, never read
\* or write the same value store key, and every finished run has returned the
\* rates, and left the store entries of its host, that it returns and leaves
\* when the runs are executed one after another.
C20_HostsDoNotInterfere ==
    /\ \A h1 \in Hosts, h2 \in Hosts :
          h1 # h2 => host_run[h1].touched \cap host_run[h2].touched = {}
    /\ \A host \in Hosts :
          host_run[host].pc = "idle" =>
             /\ host_run[host].calls = host_run[host].expected
             /\ View(value_store, host) = View(serial, host)

\* a run that overlapped a run of the other host has returned a non-zero rate
C20_Witness ==
    \E host \in Hosts :
       /\ host_run[host].pc = "idle"
       /\ host_run[host].overlapped
       /\ OtherRuns(host)
       /\ \E i \in DOMAIN host_run[host].calls :
             /\ ~host_run[host].calls[i].raised
             /\ host_run[host].calls[i].num > 0
       /\ \A other \in Hosts : host_run[other].touched # {}

\* --------------------------------- the pipeline of one host: parse, discover, check

\* the primary table of scenario 1: (descr, type, speed, admin, oper)
Scenario1Table == << <<"eth0", "6", "1000000000", "1", "1">> >>
\* the same row as the fetch list of snmp_section_multi_table_interfaces
\* delivers it: (index, descr, type, speed, admin, oper)
Scenario1Indexed == << <<"1", "eth0", "6", "1000000000", "1", "1">> >>

\* the string tables of the pipeline: one interface, no auxiliary rows
PipelineStringTables ==
    {<<if_table, <<>>, <<>> >> :
        if_table \in {Scenario1Table, Scenario1Indexed}
                       \cup {<< <<"1", "eth0", if_type, speed, admin_status, oper_status>> >> :
                               if_type \in {"6", "24"}, speed \in {"1000", "1000000000"},
                               admin_status \in {"1", "2"}, oper_status \in {"1", "2"}}}

\* time.time() of the check runs of the pipeline
PipelineTimes == {0, 1}

\* The framework takes what the run returned: the parsed section replaces the
\* section it keeps, the discovered services replace the services it keeps.
Deliver ==
    /\ run.op # "idle"
    /\ run' = Idle
    /\ before' = value_store
    /\ samples_before' = last_sample
    /\ pipeline' =
          IF run.op = "parse_multi_table_interfaces" /\ ~run.raised
          THEN [pipeline EXCEPT !.string_table = run.params, !.section = run.section]
          ELSE IF run.discovery /\ ~run.raised
          THEN [pipeline EXCEPT !.services = run.out]
          ELSE pipeline
    /\ UNCHANGED <<plugin, value_store, last_sample, previous, local_check, host_run,
                   serial>>

\* discovery on the section the parser returned
PipelineDiscover ==
    /\ ~IsNone(pipeline.section)
    /\ discover_multi_table_interfaces(pipeline.section)

\* the check of a discovered service on the section the parser returned, its
\* parameters the default parameters and over them the discovered ones
PipelineCheck(service, now) ==
    /\ ~IsNone(pipeline.section)
    /\ service \in pipeline.services
    /\ check_multi_table_interfaces(service.item,
                                    service.parameters @@ multi_default_parameters,
                                    pipeline.section, now)

InitPipeline ==
    /\ plugin = "multi_table_interfaces"
    /\ InitStore

NextPipeline ==
    \/ \E string_table \in PipelineStringTables :
          parse_multi_table_interfaces(string_table)
    \/ PipelineDiscover
    \/ \E service \in pipeline.services, now \in PipelineTimes :
          PipelineCheck(service, now)
    \/ Deliver

SpecPipeline == InitPipeline /\ [][NextPipeline]_vars

\* ------------------------------------------------------- claims: scenario 1

\* the pipeline step that is running works on the table `if_table`
OnTable(if_table) ==
    IF run.op = "parse_multi_table_interfaces"
    THEN run.params = <<if_table, <<>>, <<>> >>
    ELSE /\ run.op \in {"discover_multi_table_interfaces", "check_multi_table_interfaces"}
         /\ pipeline.string_table = <<if_table, <<>>, <<>> >>

\* what scenario 1 says of the pipeline step that is running
Scenario1Holds ==
    /\ ~run.raised
    /\ run.op = "parse_multi_table_interfaces" =>
          /\ DOMAIN run.section = {"eth0"}
          /\ run.section["eth0"].oper_status = 1
    /\ run.op = "discover_multi_table_interfaces" =>
          {service.item : service \in run.out} = {"eth0"}
    /\ (/\ run.op = "check_multi_table_interfaces"
        /\ run.item = "eth0"
        /\ Get(run.params, "expected_status", 0) = 1) =>
          /\ run.out[1].kind = "Result"
          /\ run.out[1].state = "OK"
          /\ run.out[1].text = <<"Status: ", "up">>

\* C21 as stated: the primary table [["eth0","6","1000000000","1","1"]] yields
\* an entity "eth0" with oper_status 1, discovery yields it as a service, and
\* the status result of its check with default parameters is OK "up".
C21_Original == OnTable(Scenario1Table) => Scenario1Holds

\* C21: the primary table [["1","eth0","6","1000000000","1","1"]], read with
\* columns (index, descr, type, speed, admin, oper), yields an entity "eth0"
\* with oper_status 1, discovery yields it as a service, and the status result
\* of its check with default parameters is OK "up".
C21_ScenarioWithIndex == OnTable(Scenario1Indexed) => Scenario1Holds

\* the check of the service discovered from the indexed table has run
C21_Witness ==
    /\ OnTable(Scenario1Indexed)
    /\ run.op = "check_multi_table_interfaces"
    /\ run.item = "eth0"
    /\ run.params.discovered_speed = 1000000000
    /\ run.out[1].state = "OK"

\* ------------------------------------- status and speed of an interface

\* ifOperStatus / ifAdminStatus as the parsers store them: 1 .. 7 are the
\* codes of the MIB, 0 stands for a text that is not a number, 8 for a code
\* the MIB does not define
OperCodes == 0..8
AdminCodes == {0, 1, 2}
\* ifSpeed of the interface: unknown, and two speeds
Speeds == {0, 100, 1000}

\* parsed sections of interface_status with every status
AllStatusSections ==
    { [i \in Items |-> [index |-> "1", admin_status |-> a, oper_status |-> o]] :
        a \in AdminCodes, o \in OperCodes }

\* parsed sections of multi_table_interfaces with every status and speed
AllInterfaceSections ==
    { [i \in Items |->
          [index |-> "1", descr |-> i, name |-> "", alias |-> "", if_type |-> 6,
           speed |-> s, admin_status |-> a, oper_status |-> o,
           in_octets |-> 0, out_octets |-> 0, in_errors |-> 0, out_errors |-> 0]] :
        s \in Speeds, a \in AdminCodes, o \in OperCodes }

\* parameters of check_multi_table_interfaces: the defaults, a rule that expects
\* the interface down, and over them the parameters discovery recorded, if any
InterfaceParams ==
    { discovered @@ expected @@ [utilization_levels |-> Bare(80, 90),
                                 error_levels |-> Bare(1, 10)] :
        discovered \in {<<>>} \cup {[discovered_speed |-> s] : s \in Speeds},
        expected \in {<<>>} \cup {[expected_status |-> e] : e \in {1, 2}} }

\* time.time() of these runs: status and speed do not depend on it
StatusTime == 0

InitStatus ==
    /\ plugin \in {"interface_status", "multi_table_interfaces"}
    /\ InitStore

NextStatus ==
    \/ /\ plugin = "interface_status"
       /\ \E item \in CheckItems, section \in AllStatusSections :
             check_interface_status(item, section)
    \/ /\ plugin = "multi_table_interfaces"
       /\ \E item \in CheckItems, params \in InterfaceParams,
             section \in AllInterfaceSections :
             check_multi_table_interfaces(item, params, section, StatusTime)
    \/ Consume

SpecStatus == InitStatus /\ [][NextStatus]_vars

\* ----------------------------------------------- claims: status and speed

\* a status check has run for an interface the section holds
StatusChecked ==
    /\ run.op \in {"check_interface_status", "check_multi_table_interfaces"}
    /\ ~run.raised
    /\ run.item \in DOMAIN run.section

\* the interface the running check is about
Checked == run.section[run.item]

\* the status result of the running check: the first it yields
StatusResult == run.out[1]

\* C22: for an interface that is administratively down (admin_status # 1) the
\* status result of check_interface_status and of check_multi_table_interfaces
\* is OK and its text is the status text followed by " (admin down)", whatever
\* the oper_status and the expected_status parameter are.
C22_AdminDownIsOK ==
    (StatusChecked /\ Checked.admin_status # 1) =>
        /\ StatusResult.kind = "Result"
        /\ StatusResult.state = "OK"
        /\ Len(StatusResult.text) = 3
        /\ StatusResult.text[1] \in {"Status: ", "Operational status: "}
        /\ StatusResult.text[2] = oper_status_map(Checked.oper_status)[2]
        /\ StatusResult.text[3] = " (admin down)"

\* an interface that is administratively down and operationally down, while
\* the rule expects it down, has been checked by the multi-table check
C22_Witness ==
    /\ StatusChecked
    /\ run.op = "check_multi_table_interfaces"
    /\ Checked.admin_status = 2
    /\ Checked.oper_status = 2
    /\ Get(run.params, "expected_status", 1) = 2
    /\ StatusResult.state = "OK"

\* an interface with an invalid status code that is administratively down
\* has been checked by check_interface_status
C22_WitnessStatus ==
    /\ StatusChecked
    /\ run.op = "check_interface_status"
    /\ Checked.admin_status = 0
    /\ Checked.oper_status = 8
    /\ StatusResult.state = "OK"

\* the results of the running check that report a changed speed
SpeedWarnings ==
    {i \in DOMAIN run.out :
        /\ run.out[i].kind = "Result"
        /\ run.out[i].state = "WARN"
        /\ run.out[i].text = <<"Speed changed: {speed} (was {discovered_speed})">>}

\* C23: check_multi_table_interfaces yields a WARN "Speed changed" result
\* whenever the interface's speed differs from the non-zero discovered_speed
\* parameter, and no such result when they are equal or no discovered speed
\* is recorded.
C23_SpeedChangeWarns ==
    (StatusChecked /\ run.op = "check_multi_table_interfaces") =>
        LET discovered_speed == Get(run.params, "discovered_speed", 0)
        IN  IF discovered_speed # 0 /\ Checked.speed # discovered_speed
            THEN SpeedWarnings # {}
            ELSE SpeedWarnings = {}

\* a speed that changed to another known speed is reported
C23_Witness ==
    /\ StatusChecked
    /\ run.op = "check_multi_table_interfaces"
    /\ Get(run.params, "discovered_speed", 0) = 1000
    /\ Checked.speed = 100
    /\ SpeedWarnings # {}

\* C28: in check_multi_table_interfaces the status result of an interface
\* that is administratively up and whose oper_status equals the
\* expected_status parameter is never CRIT.
C28_ExpectedStatusIsNotCrit ==
    (/\ StatusChecked
     /\ run.op = "check_multi_table_interfaces"
     /\ Checked.admin_status = 1
     /\ Checked.oper_status = Get(run.params, "expected_status", 1)) =>
        StatusResult.state # "CRIT"

\* ------------------------------ active_check_executable.py: output_result

\* exit code UNKNOWN
UNKNOWN == 3

\* status_text.get(status, 'UNKNOWN')
status_text(status) ==
    CASE status = OK -> "OK"
      [] status = WARNING -> "WARNING"
      [] status = CRITICAL -> "CRITICAL"
      [] OTHER -> "UNKNOWN"

\* One item of the perfdata dict: its name and its values.  A tuple is
\* (value, ...) with `rest` its second to fifth elements, as many as it has;
\* any other value is a value alone.
PerfItem(name, is_tuple, value, rest) ==
    [name |-> name, is_tuple |-> is_tuple, value |-> value, rest |-> rest]

\* values + (None,) * (5 - len(values)), without the value
Pad(rest) == rest \o [i \in 1..(4 - Len(rest)) |-> NoBound]

\* perf_str of one item, as the fields that the ";" of the text separate
perf_str(item) ==
    IF item.is_tuple
    THEN LET padded == Pad(item.rest)
             warn == padded[1]
             crit == padded[2]
             min_val == padded[3]
             max_val == padded[4]
         IN  <<item.name \o "=" \o item.value>>
             \o (IF ~warn.is_none THEN <<ToString(warn.value)>> ELSE <<>>)
             \o (IF ~crit.is_none THEN <<ToString(crit.value)>> ELSE <<>>)
             \o (IF ~min_val.is_none THEN <<ToString(min_val.value)>> ELSE <<>>)
             \o (IF ~max_val.is_none THEN <<ToString(max_val.value)>> ELSE <<>>)
    ELSE <<item.name \o "=" \o item.value>>

\* output_result: the line printed (its perfdata part as perf_strings) and
\* the exit code
output_result(status, message, perfdata) ==
    Finish("output_result", "", 0,
           [status |-> status, message |-> message, perfdata |-> perfdata],
           <<>>, <<>>,
           <<[status_text |-> status_text(status), message |-> message,
              perf_strings |-> [i \in DOMAIN perfdata |-> perf_str(perfdata[i])],
              exit |-> status]>>,
           value_store)

\* Optional warn, crit, min and max of a perfdata tuple
PerfWarn == {NoBound, Bound(1)}
PerfCrit == {NoBound, Bound(2)}
PerfMin == {NoBound, Bound(0)}
PerfMax == {NoBound, Bound(9)}

\* the tuples of one to five elements
PerfRests ==
    {<<>>}
    \cup {<<w>> : w \in PerfWarn}
    \cup {<<w, c>> : w \in PerfWarn, c \in PerfCrit}
    \cup {<<w, c, lo>> : w \in PerfWarn, c \in PerfCrit, lo \in PerfMin}
    \cup {<<w, c, lo, hi>> : w \in PerfWarn, c \in PerfCrit, lo \in PerfMin, hi \in PerfMax}

\* perfdata of check_tcp_service and of check_http_service, a dict of one
\* metric of any shape, and none
Perfdata ==
    {<<>>}
    \cup {<<PerfItem("response_time", TRUE, "0.1234s", <<w, c, Bound(0)>>)>> :
            w \in PerfWarn, c \in PerfCrit}
    \cup {<<PerfItem("response_time", TRUE, "0.1234s", <<w, c, Bound(0)>>),
            PerfItem("size", TRUE, "1024", <<NoBound, NoBound, Bound(0)>>)>> :
            w \in PerfWarn, c \in PerfCrit}
    \cup {<<PerfItem("metric1", TRUE, "5", rest)>> : rest \in PerfRests}
    \cup {<<PerfItem("metric1", FALSE, "5", <<>>)>>}

InitOutput ==
    /\ plugin = "output_result"
    /\ InitStore

\* the active check prints its result and exits; the core starts it again
NextOutput ==
    \/ \E status \in {OK, WARNING, CRITICAL, UNKNOWN}, perfdata \in Perfdata :
          output_result(status, "message", perfdata)
    \/ Consume

SpecOutput == InitOutput /\ [][NextOutput]_vars

\* ------------------------------------------------------ claims: perfdata

\* the field of a printed perfdata entry at `position` is the given bound
FieldAt(fields, position, bound) ==
    bound.is_none \/ (Len(fields) >= position /\ fields[position] = ToString(bound.value))

\* C24: every perfdata entry output_result prints for a tuple (value, warn,
\* crit, min, max) has the layout name=value;warn;crit;min;max: a warn, crit,
\* min or max that is given stands in the second, third, fourth or fifth
\* position, also when warn or crit is None.
C24_FixedPositions ==
    run.op = "output_result" =>
        \A i \in DOMAIN run.params.perfdata :
            LET item == run.params.perfdata[i]
                fields == run.out[1].perf_strings[i]
            IN  item.is_tuple =>
                   /\ fields[1] = item.name \o "=" \o item.value
                   /\ \A k \in 1..4 : FieldAt(fields, k + 1, Pad(item.rest)[k])

\* ------------------------------------------------- claims: the second run

\* The running check is the second of two consecutive runs: the store it
\* found holds what one earlier run left (entries of this item only, all of
\* one timestamp), that run was strictly earlier, and no counter decreased.
SecondRun ==
    /\ IsCheck /\ ~run.raised /\ ItemPresent
    /\ before # EmptyStore
    /\ \A key \in DOMAIN before : \A other \in DOMAIN before :
          before[key][1] = before[other][1]
    /\ \A key \in DOMAIN before :
          /\ before[key][1] < run.now
          /\ \E m \in RateMetrics(run.op) :
                /\ key = MetricKey(m, run.item)
                /\ before[key][2] <= run.section[run.item][m]

\* the names of the metrics the running check emitted
EmittedNames == {run.out[i].name : i \in Metrics}

\* C25: "collecting" is confined to the first run: the second of two
\* consecutive runs of check_interface_traffic or check_multi_table_interfaces
\* for an entity, with a strictly later timestamp and non-decreasing counters,
\* the first having started from an empty value store, emits if_in_bps and
\* if_out_bps.
C25_SecondRunEmitsRates ==
    SecondRun => {"if_in_bps", "if_out_bps"} \subseteq EmittedNames

\* --------------------------------------------- claims: one entity per row

\* C26: parse_multi_table_interfaces returns exactly one entity per row of the
\* first table that has at least six columns and a non-empty description: as
\* many entities as such rows, and every such row's data under its own key.
C26_OneEntityPerRow ==
    (run.op = "parse_multi_table_interfaces" /\ ~run.raised /\ Len(run.params) >= 3) =>
        /\ Cardinality(DOMAIN run.section) = Cardinality(GoodRows)
        /\ \A i \in GoodRows :
              \E k \in DOMAIN run.section :
                 /\ run.section[k].index = PrimaryTable[i][1]
                 /\ run.section[k].descr = PrimaryTable[i][2]

\* ------------------------------------------ the services of two interfaces

\* the interfaces of the section; each is the item of one service
FrameItems == {"eth0", "eth1"}

\* one interface of such a section, its four counters at `counter`
FrameInterface(item, counter) ==
    [index |-> "1", descr |-> item, name |-> "", alias |-> "", if_type |-> 6,
     speed |-> CheckSpeed, admin_status |-> 1, oper_status |-> 1,
     in_octets |-> counter, out_octets |-> counter,
     in_errors |-> counter, out_errors |-> counter]

\* parsed sections that hold both interfaces, or only one of them
FrameSections ==
    { [i \in items |-> FrameInterface(i, 0)] : items \in (SUBSET FrameItems) \ {{}} }

InitFrame ==
    /\ plugin = "multi_table_interfaces"
    /\ InitStore

\* the check runs of the services of the two interfaces, and of a service
\* whose interface no section holds, all on one value store
NextFrame ==
    \/ \E item \in FrameItems \cup {MissingItem}, section \in FrameSections,
          now \in CheckTimes :
          check_multi_table_interfaces(item, multi_default_parameters, section, now)
    \/ Consume

SpecFrame == InitFrame /\ [][NextFrame]_vars

\* ------------------------------------------------ claims: frame of a run

\* the value store keys the claim gives item X: in_octets.X, out_octets.X,
\* in_errors.X, out_errors.X
OwnKeys(item) ==
    {m \o "." \o item : m \in {"in_octets", "out_octets", "in_errors", "out_errors"}}

\* C27: a run of check_multi_table_interfaces for item X changes no value
\* store entry other than those of in_octets.X, out_octets.X, in_errors.X and
\* out_errors.X; distinct (item, metric) pairs have distinct keys; and a run
\* whose item the section does not hold leaves the whole store unchanged.
C27_FrameOfARun ==
    /\ \A i1 \in FrameItems \cup {MissingItem}, i2 \in FrameItems \cup {MissingItem} :
          \A m1 \in RateMetrics(""), m2 \in RateMetrics("") :
             MetricKey(m1, i1) = MetricKey(m2, i2) => (i1 = i2 /\ m1 = m2)
    /\ run.op = "check_multi_table_interfaces" =>
          /\ \A key \in (DOMAIN before) \cup (DOMAIN value_store) :
                key \notin OwnKeys(run.item) =>
                   /\ key \in DOMAIN before
                   /\ key \in DOMAIN value_store
                   /\ value_store[key] = before[key]
          /\ ~ItemPresent =>
                /\ DOMAIN value_store = DOMAIN before
                /\ \A key \in DOMAIN before : value_store[key] = before[key]

\* a run for eth0 that replaced an entry of eth0 while the store held
\* entries of eth1
C27_Witness ==
    /\ run.op = "check_multi_table_interfaces"
    /\ run.item = "eth0"
    /\ ItemPresent
    /\ MetricKey("in_octets", "eth1") \in DOMAIN before
    /\ MetricKey("out_octets", "eth1") \in DOMAIN before
    /\ MetricKey("in_octets", "eth0") \in DOMAIN before
    /\ value_store[MetricKey("in_octets", "eth0")] # before[MetricKey("in_octets", "eth0")]

\* a run for an item the section does not hold, on a store that is not empty
C27_WitnessMissing ==
    /\ run.op = "check_multi_table_interfaces"
    /\ run.item = "eth0"
    /\ ~ItemPresent
    /\ MetricKey("in_octets", "eth0") \in DOMAIN before

\* -------------------------------- datasource_complete.py: piggyback output

\* Names are sequences of characters.  The characters of the names: a letter,
\* a capital letter, a digit, the hyphen, and two characters that
\* [^a-z0-9-] matches
NameChars == {"a", "A", "0", "-", "_", " "}

\* str.lower on one character
lower(c) == IF c = "A" THEN "a" ELSE c

\* re.sub(r'[^a-z0-9-]', '-', name)
replace_invalid(name) ==
    [i \in DOMAIN name |-> IF name[i] \in {"a", "0", "-"} THEN name[i] ELSE "-"]

\* re.sub(r'-+', '-', name)
RECURSIVE collapse_hyphens(_)
collapse_hyphens(name) ==
    IF Len(name) < 2 THEN name
    ELSE IF name[1] = "-" /\ name[2] = "-" THEN collapse_hyphens(Tail(name))
    ELSE <<name[1]>> \o collapse_hyphens(Tail(name))

\* name.strip('-')
RECURSIVE strip_hyphens(_)
strip_hyphens(name) ==
    IF name = <<>> THEN name
    ELSE IF name[1] = "-" THEN strip_hyphens(Tail(name))
    ELSE IF name[Len(name)] = "-" THEN strip_hyphens(SubSeq(name, 1, Len(name) - 1))
    ELSE name

\* the longest host name sanitize_hostname returns
MaxHostname == 63

\* sanitize_hostname(name)
sanitize_hostname(name) ==
    LET lowered == [i \in DOMAIN name |-> lower(name[i])]
        stripped == strip_hyphens(collapse_hyphens(replace_invalid(lowered)))
    IN  SubSeq(stripped, 1, IF Len(stripped) < MaxHostname THEN Len(stripped)
                            ELSE MaxHostname)

\* the text "unknown", the default of vm.get("name", "unknown")
Unknown == <<"u", "n", "k", "n", "o", "w", "n">>

\* the end marker of a piggyback block, and the header of the block of a host
EndMarker == <<"<<<<", ">>>>">>
Header(host) == <<"<<<<">> \o host \o <<">>>>">>

\* output_vm_piggyback(vm): the lines it prints, a header as Header(host),
\* any other line as its text up to the first value
output_vm_piggyback(vm) ==
    LET vm_name == sanitize_hostname(IF vm.name.is_none THEN Unknown ELSE vm.name.value)
    IN  Finish("output_vm_piggyback", "", 0, vm, <<>>, <<>>,
               <<Header(vm_name),
                 <<"<<<mycloud_vm:sep(59)>>>">>, <<"uuid;">>, <<"power_state;">>,
                 <<"num_vcpus;">>, <<"memory_mb;">>, <<"host;">> >>
               \o (IF vm.power_state = "ON"
                   THEN << <<"<<<mycloud_vm_stats:sep(0)>>>">>, <<"{json}">> >>
                   ELSE <<>>)
               \o (IF vm.disks > 0
                   THEN << <<"<<<mycloud_vm_disks:sep(59)>>>">> >>
                        \o [i \in 1..vm.disks |-> <<"{id};{size_bytes};{used_bytes}">>]
                   ELSE <<>>)
               \o << <<"<<<mycloud_vm_tools>>>">>, <<"installed ">>, <<"version ">>,
                     EndMarker >>,
               value_store)

\* output_node_piggyback(node)
output_node_piggyback(node) ==
    LET node_name ==
            sanitize_hostname(IF node.name.is_none THEN Unknown ELSE node.name.value)
    IN  Finish("output_node_piggyback", "", 0, node, <<>>, <<>>,
               <<Header(node_name),
                 <<"<<<mycloud_node:sep(59)>>>">>, <<"uuid;">>, <<"state;">>,
                 <<"hypervisor;">>, <<"num_vcpus;">>, <<"memory_mb;">>,
                 <<"<<<mycloud_node_stats:sep(0)>>>">>, <<"{json}">> >>
               \o (IF node.nics > 0
                   THEN << <<"<<<mycloud_node_nics:sep(59)>>>">> >>
                        \o [i \in 1..node.nics |-> <<"{name};{mac};{speed_mbps};{status}">>]
                   ELSE <<>>)
               \o <<EndMarker>>,
               value_store)

\* the longest of the short names
MaxNameLen == 2

\* a name of `n` letters
Letters(n) == [i \in 1..n |-> "a"]

\* The names the API may deliver: every name of up to MaxNameLen characters,
\* and names around the length limit, one with a hyphen at the limit.
ApiNames ==
    UNION {[1..n -> NameChars] : n \in 0..MaxNameLen}
    \cup {Letters(MaxHostname), Letters(MaxHostname + 1),
          Letters(MaxHostname - 1) \o <<"-", "a">>,
          <<"-">> \o Letters(MaxHostname) \o <<"-">>}

\* vm.get("name", ...): the key is missing, or holds a name
OptionalNames == {[is_none |-> TRUE, value |-> <<>>]}
                    \cup {[is_none |-> FALSE, value |-> name] : name \in ApiNames}

InitPiggyback ==
    /\ plugin = "piggyback"
    /\ InitStore

\* the special agent prints the piggyback block of each VM and each node
NextPiggyback ==
    \/ \E name \in OptionalNames, power_state \in {"ON", "OFF"}, disks \in {0, 1} :
          output_vm_piggyback([name |-> name, power_state |-> power_state,
                               disks |-> disks])
    \/ \E name \in OptionalNames, nics \in {0, 1} :
          output_node_piggyback([name |-> name, nics |-> nics])
    \/ Consume

SpecPiggyback == InitPiggyback /\ [][NextPiggyback]_vars

\* ----------------------------------------------------- claims: piggyback

\* the host the header of the printed block names
HeaderHost == SubSeq(run.out[1], 2, Len(run.out[1]) - 1)

\* C29: every piggyback block header output_vm_piggyback and
\* output_node_piggyback print names a non-empty host, so it is never the end
\* marker <<<<>>>>, and the name has at most 63 characters and neither begins
\* nor ends with a hyphen.
C29_HeaderNamesAHost ==
    run.op \in {"output_vm_piggyback", "output_node_piggyback"} =>
        /\ run.out[1] # EndMarker
        /\ HeaderHost # <<>>
        /\ Len(HeaderHost) <= 63
        /\ HeaderHost[1] # "-"
        /\ HeaderHost[Len(HeaderHost)] # "-"

\* the part of C29 about the length and the hyphens, for headers that name a
\* host
C29_NameIsTrimmed ==
    (/\ run.op \in {"output_vm_piggyback", "output_node_piggyback"}
     /\ HeaderHost # <<>>) =>
        /\ Len(HeaderHost) <= 63
        /\ HeaderHost[1] # "-"
        /\ HeaderHost[Len(HeaderHost)] # "-"

\* ------------------- datasource_complete.py: CloudAPIClient._request_with_requests

\* The depth at which the interpreter refuses another nested call
\* (sys.getrecursionlimit(), 1000 by default, scaled down)
RecursionLimit == 3

\* What an HTTP attempt may come to: a response with a JSON body, with a body
\* that is not JSON, with an error status, with status 429 and a Retry-After
\* header (absent, a number of seconds, or an HTTP date), or no response
Responses ==
    {[kind |-> k, retry_after |-> NoText] :
        k \in {"json", "not json", "http error", "ssl error", "connection error",
               "timeout"}}
    \cup {[kind |-> "429", retry_after |-> r] :
            r \in {NoText, Text("0"), Text("1000"),
                   Text("Wed, 21 Oct 2015 07:28:00 GMT")}}

\* int(response.headers.get("Retry-After", 60)) raises ValueError
RetryAfterRaises(response) ==
    ~response.retry_after.is_none /\ ~IntParses(response.retry_after.value)

\* a call of _request_with_requests is running
Requesting == run.op = "_request_with_requests" /\ run.out = <<>>

\* the call, or the nested calls, have ended
RequestEnded == run.op = "_request_with_requests" /\ run.out # <<>>

\* client._request(endpoint) calls _request_with_requests(url, method)
Request ==
    /\ run.op = "idle"
    /\ run' = [Idle EXCEPT !.op = "_request_with_requests"]
    /\ before' = value_store
    /\ samples_before' = last_sample
    /\ UNCHANGED <<plugin, value_store, last_sample, previous, local_check, host_run,
                   serial, pipeline>>

\* One HTTP attempt of the running call and what the call does with it: it
\* returns response.json(), raises, or sleeps and calls itself.  run.calls
\* holds the attempts made; each but the last is a frame still open.
Attempt(response) ==
    /\ Requesting
    /\ LET attempts == Append(run.calls, response)
           outcome ==
               CASE response.kind = "json" -> <<"returned">>
                 [] response.kind \in {"not json", "http error", "ssl error",
                                       "connection error", "timeout"} ->
                       <<"CloudAPIError">>
                 [] response.kind = "429" /\ RetryAfterRaises(response) ->
                       <<"ValueError">>
                 [] response.kind = "429" /\ ~RetryAfterRaises(response)
                       /\ Len(attempts) >= RecursionLimit ->
                       <<"RecursionError">>
                 [] OTHER -> <<>>
       IN  run' = [run EXCEPT !.calls = attempts, !.out = outcome,
                              !.raised = outcome \notin {<<>>, <<"returned">>}]
    /\ before' = value_store
    /\ samples_before' = last_sample
    /\ UNCHANGED <<plugin, value_store, last_sample, previous, local_check, host_run,
                   serial, pipeline>>

\* the caller has the result or the exception
RequestReturns ==
    /\ RequestEnded
    /\ Consume

InitRequest ==
    /\ plugin = "special_agent"
    /\ InitStore

NextRequest ==
    \/ Request
    \/ \E response \in Responses : Attempt(response)
    \/ RequestReturns

SpecRequest == InitRequest /\ [][NextRequest]_vars

\* the server answers every attempt, and the interpreter goes on running
SpecRequestLive ==
    /\ SpecRequest
    /\ WF_vars(\E response \in Responses : Attempt(response))
    /\ WF_vars(RequestReturns)

\* ----------------------------------------------------- claims: termination

\* C30: every call of _request_with_requests terminates, whatever responses
\* the server sends: after finitely many attempts it has returned the decoded
\* response or raised CloudAPIError, and the retries on status 429 are bounded.
C30_RequestTerminates ==
    /\ Requesting ~> RequestEnded
    /\ [](RequestEnded => run.out \in {<<"returned">>, <<"CloudAPIError">>})

\* the call ends: the first part of C30 alone
C30_CallEnds == Requesting ~> RequestEnded

\* the second part of C30 alone
C30_ReturnsOrCloudAPIError ==
    RequestEnded => run.out \in {<<"returned">>, <<"CloudAPIError">>}

====
